---- MODULE Spec2Model ----
(***************************************************************************)
(* Routing and store-and-forward queue engine of no-spam.                  *)
(*                                                                         *)
(* The store is the SQLite store (store package), the router is the Hub    *)
(* (hub package).  Every store call is one SQL statement or one            *)
(* transaction and is taken as one atomic step; a Hub method that makes    *)
(* several store calls is a sequence of steps that other requests and      *)
(* goroutines interleave with.                                             *)
(*                                                                         *)
(* The database is opened as "no-spam.db" with no _foreign_keys parameter  *)
(* and no PRAGMA foreign_keys is issued, so the FOREIGN KEY clauses of the *)
(* schema are declarations only: SQLite does not enforce them.             *)
(***************************************************************************)
EXTENDS Integers, Sequences, FiniteSets, TLC

\* ------------------------------------------------------------------ bounds
MaxMsgs == 2
MaxQueue == 2
MaxReplays == 1
MaxClock == 1
MaxHistory == 22
LiveMaxMsgs == 1
MaxOrderHistory == 3
MaxRestarts == 1

\* ------------------------------------------------------- program constants
ReplayWindow == 20

\* ------------------------------------------------------------ input domains
Topics == {"t1", "t2"}
TokenOrder == <<"a", "b">>
Tokens == {TokenOrder[i] : i \in 1..Len(TokenOrder)}
Providers == {"mock", "none"}
Payloads == {<<"p">>}

VARIABLES
    topics,      \* table topics: set of names
    subs,        \* table subscriptions: rows [topic, token, provider]
    messages,    \* table messages: rows [id, topic, payload, created_at]
    msgSeq,      \* AUTOINCREMENT counter of messages
    queue,       \* table queue: rows [id, message_id, token, status]
    queueSeq,    \* AUTOINCREMENT counter of queue
    clock,       \* CURRENT_TIMESTAMP, in seconds
    connectors,  \* Hub.connectors: registered provider names
    route,       \* the Route call in progress
    subscribe,   \* the Subscribe call in progress
    replays,     \* replay goroutines started by Subscribe
    attempts,    \* delivery goroutines started by attemptDelivery
    deltopic,    \* the DeleteTopic call in progress
    proc,        \* the queue processor goroutine
    sent,        \* connector Send calls that returned nil
    users,       \* table users: rows [username, role]
    userreq      \* the user administration request in progress

vars == <<topics, subs, messages, msgSeq, queue, queueSeq, clock, connectors,
          route, subscribe, replays, attempts, deltopic, proc, sent, users,
          userreq>>

storeVars == <<topics, subs, messages, msgSeq, queue, queueSeq, clock, users>>

Range(s) == {s[i] : i \in 1..Len(s)}

\* ------------------------------------------------------------------ store

\* SELECT EXISTS(SELECT 1 FROM topics WHERE name = ?)
TopicExists(name) == name \in topics

\* SELECT name FROM topics
ListTopics == topics

\* Mutant of GetSubscribers: only the first row is scanned.
GetSubscribers_First(topic) ==
    LET toks == SelectSeq(TokenOrder,
                    LAMBDA k : \E s \in subs : s.topic = topic /\ s.token = k)
    IN  [i \in 1..(IF Len(toks) = 0 THEN 0 ELSE 1) |->
            CHOOSE s \in subs : s.topic = topic /\ s.token = toks[i]]

\* SELECT topic, token, provider FROM subscriptions WHERE topic = ?
\* The rows come out of the primary-key index (topic, token), in token order.
GetSubscribers(topic) ==
    LET toks == SelectSeq(TokenOrder,
                    LAMBDA k : \E s \in subs : s.topic = topic /\ s.token = k)
    IN  [i \in 1..Len(toks) |->
            CHOOSE s \in subs : s.topic = topic /\ s.token = toks[i]]

\* INSERT INTO subscriptions ...; PRIMARY KEY (topic, token) rejects a
\* second row for the pair.
AddSubscriptionFails(topic, token) ==
    \E s \in subs : s.topic = topic /\ s.token = token

AddSubscription(topic, token, provider) ==
    IF AddSubscriptionFails(topic, token)
    THEN subs
    ELSE subs \cup {[topic |-> topic, token |-> token, provider |-> provider]}

\* DELETE FROM subscriptions WHERE topic = ? AND token = ?
RemoveSubscription(topic, token) ==
    {s \in subs : ~(s.topic = topic /\ s.token = token)}

\* DELETE FROM subscriptions WHERE topic = ?
ClearTopicSubscribersRows(topic) == {s \in subs : s.topic # topic}

\* Mutant of SaveMessageRow: the id is one above the highest id in the table
\* (INTEGER PRIMARY KEY without AUTOINCREMENT).
SaveMessageRow_MaxRowid(topic, payload, now) ==
    [id |-> IF messages = {} THEN 1
            ELSE (CHOOSE i \in {m.id : m \in messages} :
                      \A x \in messages : x.id <= i) + 1,
     topic |-> topic, payload |-> payload, created_at |-> now]

\* INSERT INTO messages (topic, payload); id from AUTOINCREMENT,
\* created_at DEFAULT CURRENT_TIMESTAMP
SaveMessageRow(topic, payload, now) ==
    [id |-> msgSeq + 1, topic |-> topic, payload |-> payload, created_at |-> now]

\* Mutant of EnqueueRow: the row is inserted as delivered.
EnqueueRow_Delivered(messageID, token) ==
    [id |-> queueSeq + 1, message_id |-> messageID, token |-> token,
     status |-> "delivered"]

\* INSERT INTO queue (message_id, token, status) VALUES (?, ?, 'pending')
EnqueueRow(messageID, token) ==
    [id |-> queueSeq + 1, message_id |-> messageID, token |-> token,
     status |-> "pending"]

\* Mutant of MarkDelivered: the status is flipped instead of set.
MarkDelivered_Toggle(queueID) ==
    {IF q.id = queueID
     THEN [q EXCEPT !.status = IF q.status = "pending" THEN "delivered"
                               ELSE "pending"]
     ELSE q : q \in queue}

\* UPDATE queue SET status = 'delivered' WHERE id = ?
MarkDelivered(queueID) ==
    {IF q.id = queueID THEN [q EXCEPT !.status = "delivered"] ELSE q : q \in queue}

\* SELECT COUNT(*) FROM messages WHERE topic = ?
MessageCount(topic) == Cardinality({m \in messages : m.topic = topic})

\* Mutant of SubscriberCount: the messages are counted a second time.
SubscriberCount_Messages(topic) == Cardinality({m \in messages : m.topic = topic})

\* SELECT COUNT(*) FROM subscriptions WHERE topic = ?
SubscriberCount(topic) == Cardinality({s \in subs : s.topic = topic})

\* Mutant of GetTotalMessagesSent: the delivered queue rows are counted.
GetTotalMessagesSent_Delivered ==
    Cardinality({q \in queue : q.status = "delivered"})

\* SELECT count(*) FROM messages
GetTotalMessagesSent == Cardinality(messages)

\* Mutant of ClearedQueue: the queue rows are kept.
ClearedQueue_Keep(topic) == queue

\* ClearTopicMessages, one transaction:
\* DELETE FROM queue WHERE message_id IN (SELECT id FROM messages WHERE topic = ?)
ClearedQueue(topic) ==
    {q \in queue : ~(\E m \in messages : m.topic = topic /\ m.id = q.message_id)}

\* DELETE FROM messages WHERE topic = ?
ClearedMessages(topic) == {m \in messages : m.topic # topic}

Max(S) == CHOOSE x \in S : \A y \in S : y <= x
Min(S) == CHOOSE x \in S : \A y \in S : x <= y

Reverse(s) == [i \in 1..Len(s) |-> s[Len(s) + 1 - i]]

\* ORDER BY created_at DESC: every order of the rows in which created_at
\* never increases (SQL leaves the order of equal keys open).
RECURSIVE OrderByCreatedDesc(_)
OrderByCreatedDesc(rows) ==
    IF rows = {} THEN {<<>>}
    ELSE LET mx == Max({r.created_at : r \in rows})
         IN  UNION {{<<r>> \o rest : rest \in OrderByCreatedDesc(rows \ {r})} :
                    r \in {x \in rows : x.created_at = mx}}

\* ORDER BY created_at ASC
RECURSIVE OrderByCreatedAsc(_)
OrderByCreatedAsc(rows) ==
    IF rows = {} THEN {<<>>}
    ELSE LET mn == Min({r.created_at : r \in rows})
         IN  UNION {{<<r>> \o rest : rest \in OrderByCreatedAsc(rows \ {r})} :
                    r \in {x \in rows : x.created_at = mn}}

\* Mutant of Limit: the limit is ignored.
Limit_All(s, n) == s

\* LIMIT ?
Limit(s, n) == SubSeq(s, 1, IF Len(s) < n THEN Len(s) ELSE n)

\* SELECT ... FROM messages WHERE topic = ? ORDER BY created_at DESC LIMIT ?,
\* then reversed in place.  The set of the results the query can give.
GetRecentMessages(topic, limit) ==
    {Reverse(Limit(s, limit)) :
        s \in OrderByCreatedDesc({m \in messages : m.topic = topic})}

\* SELECT q.id, q.message_id, q.token, sub.provider, q.status, m.payload
\* Mutant of PendingJoin: the rows are not filtered by status.
PendingJoin_AnyStatus ==
    {[id |-> t[1].id, message_id |-> t[1].message_id, token |-> t[1].token,
      provider |-> t[3].provider, status |-> t[1].status,
      payload |-> t[2].payload, created_at |-> t[2].created_at,
      sub_topic |-> t[3].topic] :
        t \in {x \in queue \X messages \X subs :
                  /\ x[1].message_id = x[2].id
                  /\ x[1].token = x[3].token}}

\* FROM queue q JOIN messages m ON q.message_id = m.id
\*              JOIN subscriptions sub ON q.token = sub.token
\* WHERE q.status = 'pending' ORDER BY m.created_at ASC
\* One row per (queue row, subscription of its token); sub_topic is the
\* topic of the joined subscription row and is not selected.
PendingJoin ==
    {[id |-> t[1].id, message_id |-> t[1].message_id, token |-> t[1].token,
      provider |-> t[3].provider, status |-> t[1].status,
      payload |-> t[2].payload, created_at |-> t[2].created_at,
      sub_topic |-> t[3].topic] :
        t \in {x \in queue \X messages \X subs :
                  /\ x[1].message_id = x[2].id
                  /\ x[1].token = x[3].token
                  /\ x[1].status = "pending"}}

GetAllPendingMessages == OrderByCreatedAsc(PendingJoin)

\* FROM queue q JOIN messages m ON q.message_id = m.id
\* WHERE q.token = ? AND q.status = 'pending' ORDER BY m.created_at ASC
GetPendingMessages(token) ==
    OrderByCreatedAsc(
        {[id |-> t[1].id, message_id |-> t[1].message_id, token |-> t[1].token,
          status |-> t[1].status, payload |-> t[2].payload,
          created_at |-> t[2].created_at] :
            t \in {x \in queue \X messages :
                      /\ x[1].message_id = x[2].id
                      /\ x[1].token = token
                      /\ x[1].status = "pending"}})

\* ------------------------------------------------------------------- hub

\* How json.Marshal writes a json.RawMessage: the bytes are compacted (the
\* white space outside string literals is dropped) and <, > and & are
\* written as \u003c, \u003e and \u0026.  A payload is a sequence of
\* bytes; inString tells whether s starts inside a string literal.
RECURSIVE Compact(_, _)
Compact(s, inString) ==
    IF s = <<>> THEN <<>>
    ELSE LET c == Head(s)
         IN  IF c = "\"" THEN <<c>> \o Compact(Tail(s), ~inString)
             ELSE IF c = " " /\ ~inString THEN Compact(Tail(s), inString)
             ELSE IF c = "<" THEN <<"\\u003c">> \o Compact(Tail(s), inString)
             ELSE <<c>> \o Compact(Tail(s), inString)

\* json.Marshal(store.Notification{Topic, Payload}): {"topic":T,"payload":P}
\* with P, a json.RawMessage, written as json.Marshal writes it.
Wrap(topic, payload) ==
    <<"{topic:", topic, ",payload:">> \o Compact(payload, FALSE) \o <<"}">>

\* Hub.GetConnector
GetConnector(name) == name \in connectors

IdleRoute ==
    [pc |-> "idle", topic |-> "", provider |-> "", token |-> "",
     payload |-> <<>>, msgID |-> 0, subscribers |-> <<>>, i |-> 1,
     res |-> "", subs0 |-> {}, subs1 |-> {}, seq0 |-> 0, made |-> {},
     sends |-> 0, raw |-> <<>>, skipped |-> {}, fault |-> ""]

IdleSubscribe ==
    [pc |-> "idle", topic |-> "", token |-> "", provider |-> "", res |-> "",
     dup |-> FALSE, fault |-> ""]

IdleReplay ==
    [pc |-> "idle", topic |-> "", token |-> "", provider |-> "", msgs |-> <<>>,
     i |-> 1, made |-> {}, had |-> {}]

IdleDelTopic == [pc |-> "idle", name |-> "", res |-> "", count |-> 0]

\* setupAdminUser: the user "admin" with role admin, made at the first start.
AdminUser == [username |-> "admin", role |-> "admin"]

IdleUserReq ==
    [pc |-> "idle", op |-> "", caller |-> "", target |-> "", status |-> 0]

\* boot counts the starts of the process after the first one.
IdleProc == [pc |-> "wait", pending |-> <<>>, i |-> 1, ctx |-> "live", boot |-> 0]

Init ==
    /\ topics = {}
    /\ subs = {}
    /\ messages = {}
    /\ msgSeq = 0
    /\ queue = {}
    /\ queueSeq = 0
    /\ clock = 0
    /\ connectors = {"mock"}
    /\ route = IdleRoute
    /\ subscribe = IdleSubscribe
    /\ replays = [r \in 1..MaxReplays |-> IdleReplay]
    /\ attempts = {}
    /\ deltopic = IdleDelTopic
    /\ proc = IdleProc
    /\ sent = {}
    /\ users = {AdminUser}
    /\ userreq = IdleUserReq

\* Hub.CreateTopic -> INSERT INTO topics (name); fails on an existing name.
CreateTopic(name) ==
    /\ topics' = topics \cup {name}
    /\ UNCHANGED <<subs, messages, msgSeq, queue, queueSeq, clock, connectors,
                   route, subscribe, replays, attempts, deltopic, proc, sent,
                   users, userreq>>

\* Hub.DeleteTopic -> SQLiteStore.DeleteTopic, three statements.
\* First statement: count the messages of the topic.
DeleteTopicCall(name) ==
    /\ deltopic.pc = "idle"
    /\ IF MessageCount(name) > 0
       THEN deltopic' = [pc |-> "done", name |-> name, res |-> "Conflict",
                         count |-> MessageCount(name)]
       ELSE deltopic' = [pc |-> "checksubs", name |-> name, res |-> "",
                         count |-> 0]
    /\ UNCHANGED <<storeVars, connectors, route, subscribe, replays, attempts,
                   proc, sent, userreq>>

\* Second statement: count the subscriptions of the topic.
DeleteTopicCheckSubs ==
    /\ deltopic.pc = "checksubs"
    /\ IF SubscriberCount(deltopic.name) > 0
       THEN deltopic' = [deltopic EXCEPT !.pc = "done", !.res = "Conflict",
                                         !.count = SubscriberCount(deltopic.name)]
       ELSE deltopic' = [deltopic EXCEPT !.pc = "delete"]
    /\ UNCHANGED <<storeVars, connectors, route, subscribe, replays, attempts,
                   proc, sent, userreq>>

\* Third statement: DELETE FROM topics WHERE name = ?
DeleteTopicRow(name) == topics \ {name}

DeleteTopicDelete ==
    /\ deltopic.pc = "delete"
    /\ topics' = DeleteTopicRow(deltopic.name)
    /\ deltopic' = [deltopic EXCEPT !.pc = "done", !.res = "ok"]
    /\ UNCHANGED <<subs, messages, msgSeq, queue, queueSeq, clock, connectors,
                   route, subscribe, replays, attempts, proc, sent,
                   users, userreq>>

\* DeleteTopicHandler: "cannot delete topic" -> 409, other errors -> 500
DeleteTopicStatus(res) ==
    IF res = "ok" THEN 200 ELSE IF res = "Conflict" THEN 409 ELSE 500

\* Hub.ClearTopicMessages -> SQLiteStore.ClearTopicMessages (one transaction)
ClearTopicMessages(topic) ==
    /\ queue' = ClearedQueue(topic)
    /\ messages' = ClearedMessages(topic)
    /\ UNCHANGED <<topics, subs, msgSeq, queueSeq, clock, connectors, route,
                   subscribe, replays, attempts, deltopic, proc, sent,
                   users, userreq>>

\* Hub.Unsubscribe -> SQLiteStore.RemoveSubscription
Unsubscribe(topic, token) ==
    /\ subs' = RemoveSubscription(topic, token)
    /\ UNCHANGED <<topics, messages, msgSeq, queue, queueSeq, clock,
                   connectors, route, subscribe, replays, attempts, deltopic,
                   proc, sent, users, userreq>>

\* Hub.ClearTopicSubscribers -> SQLiteStore.ClearTopicSubscribers
ClearTopicSubscribers(topic) ==
    /\ subs' = ClearTopicSubscribersRows(topic)
    /\ UNCHANGED <<topics, messages, msgSeq, queue, queueSeq, clock,
                   connectors, route, subscribe, replays, attempts, deltopic,
                   proc, sent, users, userreq>>

\* Hub.attemptDelivery: no goroutine when the provider has no connector.
\* ctx is the context the goroutine hands to Send: "request" for the context
\* of the Route call, "background" for the replay's context.Background().
AttemptDelivery(ctx, provider, token, payload, queueID) ==
    IF GetConnector(provider)
    THEN attempts \cup {[qid |-> queueID, provider |-> provider, token |-> token,
                        payload |-> payload, pc |-> "send", ctx |-> ctx]}
    ELSE attempts

\* Mutant of RouteCall: the topic is not checked.
RouteCall_NoCheck(topic, payload) ==
    /\ route.pc = "idle"
    /\ route' = [IdleRoute EXCEPT !.pc = "save", !.topic = topic,
                                  !.payload = Wrap(topic, payload),
                                  !.subs0 = {s \in subs : s.topic = topic},
                                  !.seq0 = msgSeq]
    /\ UNCHANGED <<storeVars, connectors, subscribe, replays, attempts,
                   deltopic, proc, sent, userreq>>

\* Hub.Route, broadcast: TopicExists, then the envelope.
RouteCall(topic, payload) ==
    /\ route.pc = "idle"
    /\ IF ~TopicExists(topic)
       THEN route' = [IdleRoute EXCEPT !.pc = "done", !.topic = topic,
                                       !.payload = payload,
                                       !.res = "TopicNotFound"]
       ELSE route' = [IdleRoute EXCEPT !.pc = "save", !.topic = topic,
                                       !.payload = Wrap(topic, payload),
                                       !.raw = payload,
                                       !.subs0 = {s \in subs : s.topic = topic},
                                       !.seq0 = msgSeq]
    /\ UNCHANGED <<storeVars, connectors, subscribe, replays, attempts,
                   deltopic, proc, sent, userreq>>

\* Hub.Route, broadcast: TopicExists returns an error of the database.
RouteCallFail(topic, payload) ==
    /\ route.pc = "idle"
    /\ route' = [IdleRoute EXCEPT !.pc = "done", !.topic = topic,
                                  !.payload = payload, !.raw = payload,
                                  !.seq0 = msgSeq, !.res = "StoreError",
                                  !.fault = "TopicExists"]
    /\ UNCHANGED <<storeVars, connectors, subscribe, replays, attempts,
                   deltopic, proc, sent, userreq>>

\* Mutant of RouteSaveFail: the error of SaveMessage is dropped and Route
\* goes on with the message id 0 that SaveMessage returned.
RouteSaveFail_Continue ==
    /\ route.pc = "save"
    /\ route' = [route EXCEPT !.pc = "getsubs", !.fault = "SaveMessage"]
    /\ UNCHANGED <<storeVars, connectors, subscribe, replays, attempts,
                   deltopic, proc, sent, userreq>>

\* 1. Save Message: the INSERT fails, no row is written, Route returns
\* "failed to save message".
RouteSaveFail ==
    /\ route.pc = "save"
    /\ route' = [route EXCEPT !.pc = "done", !.res = "StoreError",
                              !.fault = "SaveMessage"]
    /\ UNCHANGED <<storeVars, connectors, subscribe, replays, attempts,
                   deltopic, proc, sent, userreq>>

\* 1. Save Message.  CURRENT_TIMESTAMP has a resolution of one second: the
\* row is stamped with the same second as the previous one or a later one.
RouteSave(now) ==
    /\ route.pc = "save"
    /\ now \in {clock, clock + 1}
    /\ clock' = now
    /\ messages' = messages \cup {SaveMessageRow(route.topic, route.payload, now)}
    /\ msgSeq' = msgSeq + 1
    /\ route' = [route EXCEPT !.pc = "getsubs", !.msgID = msgSeq + 1]
    /\ UNCHANGED <<topics, subs, queue, queueSeq, connectors, subscribe,
                   replays, attempts, deltopic, proc, sent, users, userreq>>

\* Mutant of RouteGetSubscribers: the fan-out goes to the subscriptions that
\* were there when Route was called.
RouteGetSubscribers_AtCall ==
    /\ route.pc = "getsubs"
    /\ LET toks == SelectSeq(TokenOrder,
                       LAMBDA k : \E s \in route.subs0 : s.token = k)
           subscribers == [i \in 1..Len(toks) |->
                             CHOOSE s \in route.subs0 : s.token = toks[i]]
           subs1 == {s \in subs : s.topic = route.topic}
       IN  route' = IF Len(subscribers) = 0
                    THEN [route EXCEPT !.pc = "done", !.res = "ok",
                                       !.subs1 = subs1]
                    ELSE [route EXCEPT !.pc = "enqueue", !.subs1 = subs1,
                                       !.subscribers = subscribers, !.i = 1]
    /\ UNCHANGED <<storeVars, connectors, subscribe, replays, attempts,
                   deltopic, proc, sent, userreq>>

\* 2. Get Subscribers; return nil when there are none.
RouteGetSubscribers ==
    /\ route.pc = "getsubs"
    /\ LET subscribers == GetSubscribers(route.topic)
           subs1 == {s \in subs : s.topic = route.topic}
       IN  route' = IF Len(subscribers) = 0
                    THEN [route EXCEPT !.pc = "done", !.res = "ok",
                                       !.subs1 = subs1]
                    ELSE [route EXCEPT !.pc = "enqueue", !.subs1 = subs1,
                                       !.subscribers = subscribers, !.i = 1]
    /\ UNCHANGED <<storeVars, connectors, subscribe, replays, attempts,
                   deltopic, proc, sent, userreq>>

\* 2. Get Subscribers: the query fails, Route returns "failed to get
\* subscribers"; the message stays saved.
RouteGetSubscribersFail ==
    /\ route.pc = "getsubs"
    /\ route' = [route EXCEPT !.pc = "done", !.res = "StoreError",
                              !.fault = "GetSubscribers",
                              !.subs1 = {s \in subs : s.topic = route.topic}]
    /\ UNCHANGED <<storeVars, connectors, subscribe, replays, attempts,
                   deltopic, proc, sent, userreq>>

\* Mutant of RouteEnqueueFail: Route gives up at the subscriber whose
\* EnqueueMessage failed.
RouteEnqueueFail_Abort ==
    /\ route.pc = "enqueue"
    /\ route' = [route EXCEPT !.pc = "done", !.res = "StoreError",
                              !.skipped = route.skipped \cup {route.i}]
    /\ UNCHANGED <<storeVars, connectors, subscribe, replays, attempts,
                   deltopic, proc, sent, userreq>>

\* 3. EnqueueMessage fails for the subscriber: logged, continue with the
\* next subscriber; no row, no attemptDelivery.
RouteEnqueueFail ==
    /\ route.pc = "enqueue"
    /\ LET last == route.i = Len(route.subscribers)
       IN  route' = [route EXCEPT !.i = route.i + 1,
                                  !.skipped = route.skipped \cup {route.i},
                                  !.pc = IF last THEN "done" ELSE "enqueue",
                                  !.res = IF last THEN "ok" ELSE ""]
    /\ UNCHANGED <<storeVars, connectors, subscribe, replays, attempts,
                   deltopic, proc, sent, userreq>>

\* Mutant of RouteEnqueue: the last step waits for the delivery goroutines
\* of the rows the call has enqueued.
RouteEnqueue_Wait ==
    /\ route.pc = "enqueue"
    /\ route.i = Len(route.subscribers) =>
          \A a \in attempts : \A q \in route.made : a.qid # q.id
    /\ LET sub == route.subscribers[route.i]
           row == EnqueueRow(route.msgID, sub.token)
           last == route.i = Len(route.subscribers)
       IN  /\ queue' = queue \cup {row}
           /\ queueSeq' = queueSeq + 1
           /\ attempts' = AttemptDelivery("request", sub.provider, sub.token,
                                          route.payload, row.id)
           /\ route' = [route EXCEPT !.i = route.i + 1,
                                     !.made = route.made \cup {row},
                                     !.pc = IF last THEN "done" ELSE "enqueue",
                                     !.res = IF last THEN "ok" ELSE ""]
    /\ UNCHANGED <<topics, subs, messages, msgSeq, clock, connectors,
                   subscribe, replays, deltopic, proc, sent, users, userreq>>

\* 3. Enqueue for each subscriber, 4. Attempt Delivery; after the last
\* subscriber wg.Wait() returns at once (nothing was added to wg).
RouteEnqueue ==
    /\ route.pc = "enqueue"
    /\ LET sub == route.subscribers[route.i]
           row == EnqueueRow(route.msgID, sub.token)
           last == route.i = Len(route.subscribers)
       IN  /\ queue' = queue \cup {row}
           /\ queueSeq' = queueSeq + 1
           /\ attempts' = AttemptDelivery("request", sub.provider, sub.token,
                                          route.payload, row.id)
           /\ route' = [route EXCEPT !.i = route.i + 1,
                                     !.made = route.made \cup {row},
                                     !.pc = IF last THEN "done" ELSE "enqueue",
                                     !.res = IF last THEN "ok" ELSE ""]
    /\ UNCHANGED <<topics, subs, messages, msgSeq, clock, connectors,
                   subscribe, replays, deltopic, proc, sent, users, userreq>>

\* A Send that returned nil: the queue row (0 for a direct
\* message), the connector and what it was given.
SendRecord(qid, provider, token, payload) ==
    [qid |-> qid, provider |-> provider, token |-> token, payload |-> payload]

\* Mutant of RouteDirectCall: the token is not checked.
RouteDirectCall_NoTokenCheck(provider, token, payload) ==
    /\ route.pc = "idle"
    /\ route' = IF ~GetConnector(provider)
                THEN [IdleRoute EXCEPT !.pc = "done", !.provider = provider,
                          !.token = token, !.payload = payload,
                          !.res = "ConnectorNotFound"]
                ELSE [IdleRoute EXCEPT !.pc = "dsend", !.provider = provider,
                          !.token = token, !.payload = payload]
    /\ UNCHANGED <<storeVars, connectors, subscribe, replays, attempts,
                   deltopic, proc, sent, userreq>>

\* Hub.Route, direct message (msg.Topic empty): the connector of
\* msg.Provider, then the token; nothing is stored.
RouteDirectCall(provider, token, payload) ==
    /\ route.pc = "idle"
    /\ route' = IF ~GetConnector(provider)
                THEN [IdleRoute EXCEPT !.pc = "done", !.provider = provider,
                          !.token = token, !.payload = payload,
                          !.res = "ConnectorNotFound"]
                ELSE IF token = ""
                THEN [IdleRoute EXCEPT !.pc = "done", !.provider = provider,
                          !.token = token, !.payload = payload,
                          !.res = "TokenMissing"]
                ELSE [IdleRoute EXCEPT !.pc = "dsend", !.provider = provider,
                          !.token = token, !.payload = payload]
    /\ UNCHANGED <<storeVars, connectors, subscribe, replays, attempts,
                   deltopic, proc, sent, userreq>>

\* Mutant of RouteDirectSendOk: the direct message is queued like a
\* broadcast.
RouteDirectSendOk_Queued ==
    /\ route.pc = "dsend"
    /\ sent' = sent \cup {SendRecord(0, route.provider, route.token,
                                     route.payload)}
    /\ queue' = queue \cup {EnqueueRow(0, route.token)}
    /\ queueSeq' = queueSeq + 1
    /\ route' = [route EXCEPT !.pc = "done", !.res = "ok",
                              !.sends = route.sends + 1]
    /\ UNCHANGED <<topics, subs, messages, msgSeq, clock, connectors,
                   subscribe, replays, attempts, deltopic, proc,
                   users, userreq>>

\* return connector.Send(ctx, msg.Token, msg.Payload): Send returns nil.
RouteDirectSendOk ==
    /\ route.pc = "dsend"
    /\ sent' = sent \cup {SendRecord(0, route.provider, route.token,
                                     route.payload)}
    /\ route' = [route EXCEPT !.pc = "done", !.res = "ok",
                              !.sends = route.sends + 1]
    /\ UNCHANGED <<storeVars, connectors, subscribe, replays, attempts,
                   deltopic, proc, userreq>>

\* Send returns an error, which Route returns to its caller.
RouteDirectSendFail ==
    /\ route.pc = "dsend"
    /\ route' = [route EXCEPT !.pc = "done", !.res = "SendError",
                              !.sends = route.sends + 1]
    /\ UNCHANGED <<storeVars, connectors, subscribe, replays, attempts,
                   deltopic, proc, sent, userreq>>

\* SendHandler: ErrTopicNotFound -> 404, other errors -> 500
SendStatus(res) ==
    IF res = "ok" THEN 200 ELSE IF res = "TopicNotFound" THEN 404 ELSE 500

\* Mutant of SubscribeCall: the topic is not checked.
SubscribeCall_NoCheck(topic, token, provider) ==
    /\ subscribe.pc = "idle"
    /\ \E r \in 1..MaxReplays : replays[r].pc = "idle"
    /\ subscribe' = [IdleSubscribe EXCEPT !.pc = "add", !.topic = topic,
                          !.token = token, !.provider = provider]
    /\ UNCHANGED <<storeVars, connectors, route, replays, attempts, deltopic,
                   proc, sent, userreq>>

\* Hub.Subscribe: TopicExists.
SubscribeCall(topic, token, provider) ==
    /\ subscribe.pc = "idle"
    /\ \E r \in 1..MaxReplays : replays[r].pc = "idle"
    /\ subscribe' = IF ~TopicExists(topic)
                    THEN [IdleSubscribe EXCEPT !.pc = "done", !.topic = topic,
                              !.token = token, !.provider = provider,
                              !.res = "TopicNotFound"]
                    ELSE [IdleSubscribe EXCEPT !.pc = "add", !.topic = topic,
                              !.token = token, !.provider = provider]
    /\ UNCHANGED <<storeVars, connectors, route, replays, attempts, deltopic,
                   proc, sent, userreq>>

\* The call repeats a subscription that is there: same topic, token, provider.
Resubscribe ==
    [topic |-> subscribe.topic, token |-> subscribe.token,
     provider |-> subscribe.provider] \in subs

\* Hub.Subscribe: AddSubscription; its error is returned to the caller.
SubscribeAdd ==
    /\ subscribe.pc = "add"
    /\ subs' = AddSubscription(subscribe.topic, subscribe.token,
                               subscribe.provider)
    /\ subscribe' = IF AddSubscriptionFails(subscribe.topic, subscribe.token)
                    THEN [subscribe EXCEPT !.pc = "done", !.res = "error",
                                           !.dup = Resubscribe]
                    ELSE [subscribe EXCEPT !.pc = "recent"]
    /\ UNCHANGED <<topics, messages, msgSeq, queue, queueSeq, clock,
                   connectors, route, replays, attempts, deltopic, proc, sent,
                   users, userreq>>

\* Hub.Subscribe: GetRecentMessages(topic, 20) and the replay goroutine.
SubscribeRecent ==
    /\ subscribe.pc = "recent"
    /\ \E msgs \in GetRecentMessages(subscribe.topic, ReplayWindow) :
        LET r == Min({x \in 1..MaxReplays : replays[x].pc = "idle"})
        IN  replays' = IF Len(msgs) > 0
                       THEN [replays EXCEPT ![r] =
                                [pc |-> "run", topic |-> subscribe.topic,
                                 token |-> subscribe.token,
                                 provider |-> subscribe.provider,
                                 msgs |-> msgs, i |-> 1, made |-> {},
                                 had |-> {m \in messages :
                                            m.topic = subscribe.topic}]]
                       ELSE replays
    /\ subscribe' = [subscribe EXCEPT !.pc = "done", !.res = "ok"]
    /\ UNCHANGED <<storeVars, connectors, route, attempts, deltopic, proc, sent,
                   userreq>>

\* Mutant of ReplayEnqueue: the loop does not move on to the next message.
ReplayEnqueue_Again(r) ==
    /\ replays[r].pc = "run"
    /\ LET rp == replays[r]
           m == rp.msgs[rp.i]
           row == EnqueueRow(m.id, rp.token)
       IN  /\ queue' = queue \cup {row}
           /\ queueSeq' = queueSeq + 1
           /\ attempts' = AttemptDelivery("background", rp.provider, rp.token,
                                          m.payload, row.id)
           /\ replays' = [replays EXCEPT ![r] =
                [rp EXCEPT !.made = rp.made \cup {row}]]
    /\ UNCHANGED <<topics, subs, messages, msgSeq, clock, connectors, route,
                   subscribe, deltopic, proc, sent, users, userreq>>

\* The replay goroutine: EnqueueMessage(m.ID, sub.Token), attemptDelivery.
ReplayEnqueue(r) ==
    /\ replays[r].pc = "run"
    /\ LET rp == replays[r]
           m == rp.msgs[rp.i]
           row == EnqueueRow(m.id, rp.token)
       IN  /\ queue' = queue \cup {row}
           /\ queueSeq' = queueSeq + 1
           /\ attempts' = AttemptDelivery("background", rp.provider, rp.token,
                                          m.payload, row.id)
           /\ replays' = [replays EXCEPT ![r] =
                [rp EXCEPT !.i = rp.i + 1, !.made = rp.made \cup {row},
                           !.pc = IF rp.i = Len(rp.msgs) THEN "done" ELSE "run"]]
    /\ UNCHANGED <<topics, subs, messages, msgSeq, clock, connectors, route,
                   subscribe, deltopic, proc, sent, users, userreq>>

\* Mutant of SubscribeRecentFail: the error of GetRecentMessages is returned.
SubscribeRecentFail_Error ==
    /\ subscribe.pc = "recent"
    /\ subscribe' = [subscribe EXCEPT !.pc = "done", !.res = "error",
                                      !.fault = "GetRecentMessages"]
    /\ UNCHANGED <<storeVars, connectors, route, replays, attempts, deltopic,
                   proc, sent, userreq>>

\* Hub.Subscribe: GetRecentMessages returns an error; it is logged, no replay
\* goroutine starts and Subscribe returns nil.
SubscribeRecentFail ==
    /\ subscribe.pc = "recent"
    /\ subscribe' = [subscribe EXCEPT !.pc = "done", !.res = "ok",
                                      !.fault = "GetRecentMessages"]
    /\ UNCHANGED <<storeVars, connectors, route, replays, attempts, deltopic,
                   proc, sent, userreq>>

\* The replay goroutine: EnqueueMessage returns an error; it is logged and
\* the loop continues with the next message.
ReplayEnqueueFail(r) ==
    /\ replays[r].pc = "run"
    /\ LET rp == replays[r]
       IN  replays' = [replays EXCEPT ![r] =
                [rp EXCEPT !.i = rp.i + 1,
                           !.pc = IF rp.i = Len(rp.msgs) THEN "done" ELSE "run"]]
    /\ UNCHANGED <<storeVars, connectors, route, subscribe, attempts, deltopic,
                   proc, sent, userreq>>

\* SubscribeHandler: ErrTopicNotFound -> 404, other errors -> 500
SubscribeStatus(res) ==
    IF res = "ok" THEN 200 ELSE IF res = "TopicNotFound" THEN 404 ELSE 500

\* The goroutine of attemptDelivery: c.Send returns nil.
AttemptSendOk(a) ==
    /\ a \in attempts
    /\ a.pc = "send"
    /\ sent' = sent \cup {SendRecord(a.qid, a.provider, a.token, a.payload)}
    /\ attempts' = (attempts \ {a}) \cup {[a EXCEPT !.pc = "mark"]}
    /\ UNCHANGED <<storeVars, connectors, route, subscribe, replays, deltopic,
                   proc, userreq>>

\* Mutant of AttemptSendFail: the item is marked although Send failed.
AttemptSendFail_Mark(a) ==
    /\ a \in attempts
    /\ a.pc = "send"
    /\ queue' = MarkDelivered(a.qid)
    /\ attempts' = attempts \ {a}
    /\ UNCHANGED <<topics, subs, messages, msgSeq, queueSeq, clock, connectors,
                   route, subscribe, replays, deltopic, proc, sent,
                   users, userreq>>

\* c.Send returns an error: the goroutine ends, the item stays as it is.
AttemptSendFail(a) ==
    /\ a \in attempts
    /\ a.pc = "send"
    /\ attempts' = attempts \ {a}
    /\ UNCHANGED <<storeVars, connectors, route, subscribe, replays, deltopic,
                   proc, sent, userreq>>

\* Mutant of AttemptMark: every row of the token is marked.
AttemptMark_Token(a) ==
    /\ a \in attempts
    /\ a.pc = "mark"
    /\ queue' = {IF q.token = a.token THEN [q EXCEPT !.status = "delivered"]
                 ELSE q : q \in queue}
    /\ attempts' = attempts \ {a}
    /\ UNCHANGED <<topics, subs, messages, msgSeq, queueSeq, clock, connectors,
                   route, subscribe, replays, deltopic, proc, sent,
                   users, userreq>>

\* Mutant of AttemptAbort: the aborted attempt takes its queue row with it.
AttemptAbort_Drop(a) ==
    /\ a \in attempts
    /\ a.pc = "send"
    /\ a.ctx = "cancelled"
    /\ queue' = {q \in queue : q.id # a.qid}
    /\ attempts' = attempts \ {a}
    /\ UNCHANGED <<topics, subs, messages, msgSeq, queueSeq, clock, connectors,
                   route, subscribe, replays, deltopic, proc, sent,
                   users, userreq>>

\* c.Send returns the error of its cancelled context (the webhook
\* connector's request is made with the context): the goroutine ends.
AttemptAbort(a) ==
    /\ a \in attempts
    /\ a.pc = "send"
    /\ a.ctx = "cancelled"
    /\ attempts' = attempts \ {a}
    /\ UNCHANGED <<storeVars, connectors, route, subscribe, replays, deltopic,
                   proc, sent, userreq>>

\* h.store.MarkDelivered(qID) after a successful Send.
AttemptMark(a) ==
    /\ a \in attempts
    /\ a.pc = "mark"
    /\ queue' = MarkDelivered(a.qid)
    /\ attempts' = attempts \ {a}
    /\ UNCHANGED <<topics, subs, messages, msgSeq, queueSeq, clock, connectors,
                   route, subscribe, replays, deltopic, proc, sent,
                   users, userreq>>

\* processQueue: the next item of the loop, or back to the ticker.
ProcAdvance ==
    IF proc.i = Len(proc.pending)
    THEN [proc EXCEPT !.pc = "wait", !.pending = <<>>, !.i = 1]
    ELSE [proc EXCEPT !.pc = "item", !.i = proc.i + 1]

\* StartQueueProcessor: a tick; processQueue loads GetAllPendingMessages.
ProcTick ==
    /\ proc.pc = "wait"
    /\ \E pending \in GetAllPendingMessages :
        proc' = IF Len(pending) = 0 THEN proc
                ELSE [proc EXCEPT !.pc = "item", !.pending = pending, !.i = 1]
    /\ UNCHANGED <<storeVars, connectors, route, subscribe, replays, attempts,
                   deltopic, sent, userreq>>

\* The owner of the context passed to StartQueueProcessor calls cancel().
ProcCancel ==
    /\ proc.ctx = "live"
    /\ proc' = [proc EXCEPT !.ctx = "done"]
    /\ UNCHANGED <<storeVars, connectors, route, subscribe, replays, attempts,
                   deltopic, sent, userreq>>

\* Mutant of ProcStop: the loop returns although the context is live.
ProcStop_Uncancelled ==
    /\ proc.pc = "wait"
    /\ proc' = [proc EXCEPT !.pc = "stopped"]
    /\ UNCHANGED <<storeVars, connectors, route, subscribe, replays, attempts,
                   deltopic, sent, userreq>>

\* StartQueueProcessor: the select takes case <-ctx.Done() and the goroutine
\* returns.  When the ticker has fired too, both cases are ready and select
\* picks one of them at random, so ProcTick stays enabled next to ProcStop.
ProcStop ==
    /\ proc.pc = "wait"
    /\ proc.ctx = "done"
    /\ proc' = [proc EXCEPT !.pc = "stopped"]
    /\ UNCHANGED <<storeVars, connectors, route, subscribe, replays, attempts,
                   deltopic, sent, userreq>>

\* Mutant of ProcSkip: the item without a connector is marked delivered.
ProcSkip_Mark ==
    /\ proc.pc = "item"
    /\ ~GetConnector(proc.pending[proc.i].provider)
    /\ queue' = MarkDelivered(proc.pending[proc.i].id)
    /\ proc' = ProcAdvance
    /\ UNCHANGED <<topics, subs, messages, msgSeq, queueSeq, clock, connectors,
                   route, subscribe, replays, attempts, deltopic, sent,
                   users, userreq>>

\* Mutant of ProcSkip: the sweep ends at the item that has no connector.
ProcSkip_Stop ==
    /\ proc.pc = "item"
    /\ ~GetConnector(proc.pending[proc.i].provider)
    /\ proc' = [proc EXCEPT !.pc = "wait", !.pending = <<>>, !.i = 1]
    /\ UNCHANGED <<storeVars, connectors, route, subscribe, replays, attempts,
                   deltopic, sent, userreq>>

\* processQueue: no connector for item.Provider -> continue.
ProcSkip ==
    /\ proc.pc = "item"
    /\ ~GetConnector(proc.pending[proc.i].provider)
    /\ proc' = ProcAdvance
    /\ UNCHANGED <<storeVars, connectors, route, subscribe, replays, attempts,
                   deltopic, sent, userreq>>

\* processQueue: conn.Send returns nil.
ProcSendOk ==
    /\ proc.pc = "item"
    /\ GetConnector(proc.pending[proc.i].provider)
    /\ LET item == proc.pending[proc.i]
       IN  sent' = sent \cup {SendRecord(item.id, item.provider, item.token,
                                         item.payload)}
    /\ proc' = [proc EXCEPT !.pc = "mark"]
    /\ UNCHANGED <<storeVars, connectors, route, subscribe, replays, attempts,
                   deltopic, userreq>>

\* Mutant of ProcSendFail: the item is marked although Send failed.
ProcSendFail_Mark ==
    /\ proc.pc = "item"
    /\ GetConnector(proc.pending[proc.i].provider)
    /\ queue' = MarkDelivered(proc.pending[proc.i].id)
    /\ proc' = ProcAdvance
    /\ UNCHANGED <<topics, subs, messages, msgSeq, queueSeq, clock, connectors,
                   route, subscribe, replays, attempts, deltopic, sent,
                   users, userreq>>

\* processQueue: conn.Send returns an error; logged, next item.
ProcSendFail ==
    /\ proc.pc = "item"
    /\ GetConnector(proc.pending[proc.i].provider)
    /\ proc' = ProcAdvance
    /\ UNCHANGED <<storeVars, connectors, route, subscribe, replays, attempts,
                   deltopic, sent, userreq>>

\* Mutant of ProcMark: the processor goes on without marking the item.
ProcMark_Forget ==
    /\ proc.pc = "mark"
    /\ proc' = ProcAdvance
    /\ UNCHANGED <<storeVars, connectors, route, subscribe, replays, attempts,
                   deltopic, sent, userreq>>

\* processQueue: h.store.MarkDelivered(item.ID)
ProcMark ==
    /\ proc.pc = "mark"
    /\ queue' = MarkDelivered(proc.pending[proc.i].id)
    /\ proc' = ProcAdvance
    /\ UNCHANGED <<topics, subs, messages, msgSeq, queueSeq, clock, connectors,
                   route, subscribe, replays, attempts, deltopic, sent,
                   users, userreq>>

\* A call that is done returns to its caller, a goroutine that is done ends.
\* Neither touches the store.  When Route returns, SendHandler returns and
\* its deferred cancel() cancels the context it gave to Route, which is the
\* context of the delivery goroutines that Route started.
RouteReturn ==
    /\ route.pc = "done"
    /\ route' = IdleRoute
    /\ attempts' = {IF a.ctx = "request" THEN [a EXCEPT !.ctx = "cancelled"]
                    ELSE a : a \in attempts}
    /\ UNCHANGED <<storeVars, connectors, subscribe, replays,
                   deltopic, proc, sent, userreq>>

SubscribeReturn ==
    /\ subscribe.pc = "done"
    /\ subscribe' = IdleSubscribe
    /\ UNCHANGED <<storeVars, connectors, route, replays, attempts, deltopic,
                   proc, sent, userreq>>

DeleteTopicReturn ==
    /\ deltopic.pc = "done"
    /\ deltopic' = IdleDelTopic
    /\ UNCHANGED <<storeVars, connectors, route, subscribe, replays, attempts,
                   proc, sent, userreq>>

ReplayExit(r) ==
    /\ replays[r].pc = "done"
    /\ replays' = [replays EXCEPT ![r] = IdleReplay]
    /\ UNCHANGED <<storeVars, connectors, route, subscribe, attempts, deltopic,
                   proc, sent, userreq>>

\* A return changes nothing another request can see, so it is taken as
\* soon as the call is done: Quiet guards every other step.
Quiet ==
    /\ route.pc # "done"
    /\ subscribe.pc # "done"
    /\ deltopic.pc # "done"
    /\ \A r \in 1..MaxReplays : replays[r].pc # "done"

\* Subscribe requests: (topic, token, provider).  "mock" has a connector,
\* "none" has not.
SubscribeInputs == {<<"t1", "a", "mock">>, <<"t1", "b", "none">>}

\* The router on one topic: publish, subscribe with replay, unsubscribe,
\* clear, and the delivery goroutines.
Next ==
    \/ RouteReturn
    \/ SubscribeReturn
    \/ \E r \in 1..MaxReplays : ReplayExit(r)
    \/ Quiet /\ CreateTopic("t1")
    \/ Quiet /\ ClearTopicMessages("t1")
    \/ Quiet /\ \E token \in Tokens : Unsubscribe("t1", token)
    \/ Quiet /\ ClearTopicSubscribers("t1")
    \/ Quiet /\ msgSeq < MaxMsgs /\ \E payload \in Payloads : RouteCall("t1", payload)
    \/ Quiet /\ \E now \in clock..MaxClock : RouteSave(now)
    \/ Quiet /\ RouteGetSubscribers
    \/ Quiet /\ queueSeq < MaxQueue /\ RouteEnqueue
    \/ Quiet /\ \E in \in SubscribeInputs : SubscribeCall(in[1], in[2], in[3])
    \/ Quiet /\ SubscribeAdd
    \/ Quiet /\ SubscribeRecent
    \/ Quiet /\ queueSeq < MaxQueue /\ \E r \in 1..MaxReplays : ReplayEnqueue(r)
    \/ Quiet /\ \E a \in attempts : AttemptSendOk(a)
    \/ Quiet /\ \E a \in attempts : AttemptSendFail(a)
    \/ Quiet /\ \E a \in attempts : AttemptMark(a)

Spec == Init /\ [][Next]_vars

\* Subscribe requests of the topic life cycle: no provider has a connector,
\* so that no delivery goroutine starts.
TopicSubscribeInputs == {<<"t1", "a", "none">>, <<"t1", "b", "none">>}

\* The topic life cycle: DeleteTopic next to publish, subscribe and clear.
NextTopic ==
    \/ RouteReturn
    \/ SubscribeReturn
    \/ DeleteTopicReturn
    \/ \E r \in 1..MaxReplays : ReplayExit(r)
    \/ Quiet /\ CreateTopic("t1")
    \/ Quiet /\ DeleteTopicCall("t1")
    \/ Quiet /\ DeleteTopicCheckSubs
    \/ Quiet /\ DeleteTopicDelete
    \/ Quiet /\ ClearTopicMessages("t1")
    \/ Quiet /\ \E token \in Tokens : Unsubscribe("t1", token)
    \/ Quiet /\ ClearTopicSubscribers("t1")
    \/ Quiet /\ msgSeq < MaxMsgs /\ \E payload \in Payloads : RouteCall("t1", payload)
    \/ Quiet /\ \E now \in clock..MaxClock : RouteSave(now)
    \/ Quiet /\ RouteGetSubscribers
    \/ Quiet /\ queueSeq < MaxQueue /\ RouteEnqueue
    \/ Quiet /\ \E in \in TopicSubscribeInputs : SubscribeCall(in[1], in[2], in[3])
    \/ Quiet /\ SubscribeAdd
    \/ Quiet /\ SubscribeRecent
    \/ Quiet /\ queueSeq < MaxQueue /\ \E r \in 1..MaxReplays : ReplayEnqueue(r)

SpecTopic == Init /\ [][NextTopic]_vars

\* Subscribe requests of one endpoint, with a provider that has no
\* connector and with one that has.
LiveSubscribeInputs == {<<"t1", "a", "none">>, <<"t1", "a", "mock">>}

\* The queue: publish, subscribe with replay, unsubscribe, clear, the
\* delivery goroutines and the queue processor; a Send may fail.
NextQueue ==
    \/ RouteReturn
    \/ SubscribeReturn
    \/ \E r \in 1..MaxReplays : ReplayExit(r)
    \/ Quiet /\ CreateTopic("t1")
    \/ Quiet /\ ClearTopicMessages("t1")
    \/ Quiet /\ Unsubscribe("t1", "a")
    \/ Quiet /\ msgSeq < MaxMsgs /\ \E payload \in Payloads : RouteCall("t1", payload)
    \/ Quiet /\ RouteSave(clock)
    \/ Quiet /\ RouteGetSubscribers
    \/ Quiet /\ queueSeq < MaxQueue /\ RouteEnqueue
    \/ Quiet /\ \E in \in LiveSubscribeInputs : SubscribeCall(in[1], in[2], in[3])
    \/ Quiet /\ SubscribeAdd
    \/ Quiet /\ SubscribeRecent
    \/ Quiet /\ queueSeq < MaxQueue /\ \E r \in 1..MaxReplays : ReplayEnqueue(r)
    \/ Quiet /\ \E a \in attempts : AttemptSendOk(a)
    \/ Quiet /\ \E a \in attempts : AttemptSendFail(a)
    \/ Quiet /\ \E a \in attempts : AttemptMark(a)
    \/ Quiet /\ ProcTick
    \/ Quiet /\ ProcSkip
    \/ Quiet /\ ProcSendOk
    \/ Quiet /\ ProcSendFail
    \/ Quiet /\ ProcMark

SpecQueue == Init /\ [][NextQueue]_vars

\* The queue when every Send returns nil.
NextLive ==
    \/ RouteReturn
    \/ SubscribeReturn
    \/ \E r \in 1..MaxReplays : ReplayExit(r)
    \/ Quiet /\ CreateTopic("t1")
    \/ Quiet /\ Unsubscribe("t1", "a")
    \/ Quiet /\ ClearTopicSubscribers("t1")
    \/ Quiet /\ msgSeq < LiveMaxMsgs /\ \E payload \in Payloads : RouteCall("t1", payload)
    \/ Quiet /\ RouteSave(clock)
    \/ Quiet /\ RouteGetSubscribers
    \/ Quiet /\ queueSeq < MaxQueue /\ RouteEnqueue
    \/ Quiet /\ \E in \in LiveSubscribeInputs : SubscribeCall(in[1], in[2], in[3])
    \/ Quiet /\ SubscribeAdd
    \/ Quiet /\ SubscribeRecent
    \/ Quiet /\ queueSeq < MaxQueue /\ \E r \in 1..MaxReplays : ReplayEnqueue(r)
    \/ \E a \in attempts : AttemptSendOk(a)
    \/ \E a \in attempts : AttemptMark(a)
    \/ ProcTick
    \/ ProcSkip
    \/ ProcSendOk
    \/ ProcMark

\* The scheduler is fair to every goroutine: the ticker fires, the
\* processor and the delivery goroutines take their next step, calls return.
Fairness ==
    /\ WF_vars(RouteReturn)
    /\ WF_vars(SubscribeReturn)
    /\ WF_vars(\E r \in 1..MaxReplays : ReplayExit(r))
    /\ WF_vars(\E a \in attempts : AttemptSendOk(a))
    /\ WF_vars(\E a \in attempts : AttemptMark(a))
    /\ WF_vars(ProcTick)
    /\ WF_vars(ProcSkip)
    /\ WF_vars(ProcSendOk)
    /\ WF_vars(ProcMark)

SpecLive == Init /\ [][NextLive]_vars /\ Fairness

\* Mutant of Restart: the new process does not start the queue processor.
Restart_NoProcessor ==
    /\ route' = IdleRoute
    /\ subscribe' = IdleSubscribe
    /\ replays' = [r \in 1..MaxReplays |-> IdleReplay]
    /\ attempts' = {}
    /\ deltopic' = IdleDelTopic
    /\ proc' = [IdleProc EXCEPT !.boot = proc.boot + 1, !.pc = "stopped"]
    /\ connectors' = {"mock"}
    /\ UNCHANGED <<storeVars, sent, userreq>>

\* CreateUserHandler: an empty role is subscriber, another role than admin,
\* publisher, subscriber is 400; INSERT INTO users fails on the primary key
\* username with a UNIQUE constraint error, which is 409.
CreateUserHandler(operator, username, role) ==
    /\ userreq.pc = "idle"
    /\ LET r == IF role = "" THEN "subscriber" ELSE role
           status == IF r \notin {"admin", "publisher", "subscriber"} THEN 400
                     ELSE IF \E u \in users : u.username = username THEN 409
                     ELSE 201
       IN  /\ users' = IF status = 201
                       THEN users \cup {[username |-> username, role |-> r]}
                       ELSE users
           /\ userreq' = [pc |-> "done", op |-> "create", caller |-> operator,
                          target |-> username, status |-> status]
    /\ UNCHANGED <<topics, subs, messages, msgSeq, queue, queueSeq, clock,
                   connectors, route, subscribe, replays, attempts, deltopic,
                   proc, sent>>

\* Store.DeleteUser: the row is removed; an unknown username is the error
\* "user not found".
DeleteUserFails(username) == ~\E u \in users : u.username = username

DeleteUser(username) == {u \in users : u.username # username}

\* Mutant of DeleteUserHandler: the operator is not compared with the target.
DeleteUserHandler_NoSelfCheck(operator, username) ==
    /\ userreq.pc = "idle"
    /\ LET status == IF username = "" THEN 400
                     ELSE IF DeleteUserFails(username) THEN 404
                     ELSE 200
       IN  /\ users' = IF status = 200 THEN DeleteUser(username) ELSE users
           /\ userreq' = [pc |-> "done", op |-> "delete", caller |-> operator,
                          target |-> username, status |-> status]
    /\ UNCHANGED <<topics, subs, messages, msgSeq, queue, queueSeq, clock,
                   connectors, route, subscribe, replays, attempts, deltopic,
                   proc, sent>>

\* DeleteUserHandler: 400 on an empty username, 409 when the operator of the
\* request is the target, else Store.DeleteUser: 404 on "user not found",
\* 200 when the row is removed.
DeleteUserHandler(operator, username) ==
    /\ userreq.pc = "idle"
    /\ LET status == IF username = "" THEN 400
                     ELSE IF operator = username THEN 409
                     ELSE IF DeleteUserFails(username) THEN 404
                     ELSE 200
       IN  /\ users' = IF status = 200 THEN DeleteUser(username) ELSE users
           /\ userreq' = [pc |-> "done", op |-> "delete", caller |-> operator,
                          target |-> username, status |-> status]
    /\ UNCHANGED <<topics, subs, messages, msgSeq, queue, queueSeq, clock,
                   connectors, route, subscribe, replays, attempts, deltopic,
                   proc, sent>>

\* The response is written and the request is over.
UserReturn ==
    /\ userreq.pc = "done"
    /\ userreq' = IdleUserReq
    /\ UNCHANGED <<storeVars, connectors, route, subscribe, replays, attempts,
                   deltopic, proc, sent>>

\* Names of users, and the roles a create request may carry.
UserNames == {"admin", "u1", "u2"}
RoleInputs == {"", "admin", "publisher", "root"}

\* User administration: administrators create and delete users.
NextUsers ==
    \/ UserReturn
    \/ \E operator \in UserNames, username \in UserNames, role \in RoleInputs :
           CreateUserHandler(operator, username, role)
    \/ \E operator \in UserNames, username \in UserNames \cup {""} :
           DeleteUserHandler(operator, username)

SpecUsers == Init /\ [][NextUsers]_vars

\* The queue when a Send fails only by the cancellation of its context.
NextCancel ==
    \/ RouteReturn
    \/ SubscribeReturn
    \/ \E r \in 1..MaxReplays : ReplayExit(r)
    \/ Quiet /\ CreateTopic("t1")
    \/ Quiet /\ Unsubscribe("t1", "a")
    \/ Quiet /\ msgSeq < LiveMaxMsgs /\ \E payload \in Payloads : RouteCall("t1", payload)
    \/ Quiet /\ RouteSave(clock)
    \/ Quiet /\ RouteGetSubscribers
    \/ Quiet /\ queueSeq < MaxQueue /\ RouteEnqueue
    \/ Quiet /\ \E in \in LiveSubscribeInputs : SubscribeCall(in[1], in[2], in[3])
    \/ Quiet /\ SubscribeAdd
    \/ Quiet /\ SubscribeRecent
    \/ Quiet /\ queueSeq < MaxQueue /\ \E r \in 1..MaxReplays : ReplayEnqueue(r)
    \/ \E a \in attempts : AttemptSendOk(a)
    \/ \E a \in attempts : AttemptAbort(a)
    \/ \E a \in attempts : AttemptMark(a)
    \/ ProcTick
    \/ ProcSkip
    \/ ProcSendOk
    \/ ProcMark

SpecCancel == Init /\ [][NextCancel]_vars /\ Fairness

\* Subscribe requests of two endpoints whose provider has a connector.
FaultSubscribeInputs == {<<"t1", "a", "mock">>, <<"t1", "b", "mock">>}

\* The router when a statement of Route may fail in the database.
NextFaults ==
    \/ RouteReturn
    \/ SubscribeReturn
    \/ \E r \in 1..MaxReplays : ReplayExit(r)
    \/ Quiet /\ CreateTopic("t1")
    \/ Quiet /\ msgSeq < MaxMsgs /\ \E payload \in Payloads : RouteCall("t1", payload)
    \/ Quiet /\ msgSeq < MaxMsgs /\ \E payload \in Payloads : RouteCallFail("t1", payload)
    \/ Quiet /\ RouteSave(clock)
    \/ Quiet /\ RouteSaveFail
    \/ Quiet /\ RouteGetSubscribers
    \/ Quiet /\ RouteGetSubscribersFail
    \/ Quiet /\ queueSeq < MaxQueue /\ RouteEnqueue
    \/ Quiet /\ RouteEnqueueFail
    \/ Quiet /\ \E in \in FaultSubscribeInputs : SubscribeCall(in[1], in[2], in[3])
    \/ Quiet /\ SubscribeAdd
    \/ Quiet /\ SubscribeRecent
    \/ Quiet /\ queueSeq < MaxQueue /\ \E r \in 1..MaxReplays : ReplayEnqueue(r)
    \/ Quiet /\ \E a \in attempts : AttemptSendOk(a)
    \/ Quiet /\ \E a \in attempts : AttemptMark(a)

SpecFaults == Init /\ [][NextFaults]_vars

\* Subscribe next to publish when GetRecentMessages, a replay
\* EnqueueMessage or a replay Send may fail.
NextSubFaults ==
    \/ RouteReturn
    \/ SubscribeReturn
    \/ \E r \in 1..MaxReplays : ReplayExit(r)
    \/ Quiet /\ CreateTopic("t1")
    \/ Quiet /\ Unsubscribe("t1", "a")
    \/ Quiet /\ msgSeq < MaxMsgs /\ \E payload \in Payloads : RouteCall("t1", payload)
    \/ Quiet /\ RouteSave(clock)
    \/ Quiet /\ RouteGetSubscribers
    \/ Quiet /\ queueSeq < MaxQueue /\ RouteEnqueue
    \/ Quiet /\ \E in \in FaultSubscribeInputs : SubscribeCall(in[1], in[2], in[3])
    \/ Quiet /\ SubscribeAdd
    \/ Quiet /\ SubscribeRecent
    \/ Quiet /\ SubscribeRecentFail
    \/ Quiet /\ queueSeq < MaxQueue /\ \E r \in 1..MaxReplays : ReplayEnqueue(r)
    \/ Quiet /\ \E r \in 1..MaxReplays : ReplayEnqueueFail(r)
    \/ Quiet /\ \E a \in attempts : AttemptSendOk(a)
    \/ Quiet /\ \E a \in attempts : AttemptSendFail(a)
    \/ Quiet /\ \E a \in attempts : AttemptMark(a)

SpecSubFaults == Init /\ [][NextSubFaults]_vars

\* The process stops at any moment, with every request and goroutine in
\* flight, and is started again: run opens the same database file, makes a
\* new hub, registers the connectors and starts the queue processor.
Restart ==
    /\ route' = IdleRoute
    /\ subscribe' = IdleSubscribe
    /\ replays' = [r \in 1..MaxReplays |-> IdleReplay]
    /\ attempts' = {}
    /\ deltopic' = IdleDelTopic
    /\ proc' = [IdleProc EXCEPT !.boot = proc.boot + 1]
    /\ connectors' = {"mock"}
    /\ UNCHANGED <<storeVars, sent, userreq>>

\* The queue when every Send returns nil and the process may be restarted.
NextRestart ==
    \/ RouteReturn
    \/ SubscribeReturn
    \/ \E r \in 1..MaxReplays : ReplayExit(r)
    \/ Quiet /\ CreateTopic("t1")
    \/ Quiet /\ Unsubscribe("t1", "a")
    \/ Quiet /\ msgSeq < LiveMaxMsgs /\ \E payload \in Payloads : RouteCall("t1", payload)
    \/ Quiet /\ RouteSave(clock)
    \/ Quiet /\ RouteGetSubscribers
    \/ Quiet /\ queueSeq < MaxQueue /\ RouteEnqueue
    \/ Quiet /\ \E in \in LiveSubscribeInputs : SubscribeCall(in[1], in[2], in[3])
    \/ Quiet /\ SubscribeAdd
    \/ Quiet /\ SubscribeRecent
    \/ Quiet /\ queueSeq < MaxQueue /\ \E r \in 1..MaxReplays : ReplayEnqueue(r)
    \/ \E a \in attempts : AttemptSendOk(a)
    \/ \E a \in attempts : AttemptMark(a)
    \/ ProcTick
    \/ ProcSkip
    \/ ProcSendOk
    \/ ProcMark
    \/ proc.boot < MaxRestarts /\ Restart

SpecRestart == Init /\ [][NextRestart]_vars /\ Fairness

\* The queue processor with a context that its owner may cancel.
NextStop ==
    \/ RouteReturn
    \/ SubscribeReturn
    \/ \E r \in 1..MaxReplays : ReplayExit(r)
    \/ Quiet /\ CreateTopic("t1")
    \/ Quiet /\ msgSeq < LiveMaxMsgs /\ \E payload \in Payloads : RouteCall("t1", payload)
    \/ Quiet /\ RouteSave(clock)
    \/ Quiet /\ RouteGetSubscribers
    \/ Quiet /\ queueSeq < MaxQueue /\ RouteEnqueue
    \/ Quiet /\ \E in \in LiveSubscribeInputs : SubscribeCall(in[1], in[2], in[3])
    \/ Quiet /\ SubscribeAdd
    \/ Quiet /\ SubscribeRecent
    \/ Quiet /\ queueSeq < MaxQueue /\ \E r \in 1..MaxReplays : ReplayEnqueue(r)
    \/ Quiet /\ Unsubscribe("t1", "a")
    \/ \E a \in attempts : AttemptSendOk(a)
    \/ \E a \in attempts : AttemptSendFail(a)
    \/ \E a \in attempts : AttemptMark(a)
    \/ ProcTick
    \/ ProcSkip
    \/ ProcSendOk
    \/ ProcMark
    \/ ProcCancel
    \/ ProcStop

\* select picks at random among its ready cases, so a loop that comes back
\* to the select again and again with ctx.Done() ready takes it at last.
SpecStop == Init /\ [][NextStop]_vars /\ Fairness /\ SF_vars(ProcStop)

\* A database that holds n messages of topic t1 when the server starts;
\* with tie > 0 the messages tie and tie + 1 were saved in the same second.
Stamp(i, tie) == IF tie > 0 /\ i > tie THEN i - 1 ELSE i

History(n, tie) ==
    {[id |-> i, topic |-> "t1", payload |-> Wrap("t1", <<"p">>),
      created_at |-> Stamp(i, tie)] : i \in 1..n}

\* NewSQLiteStore on an existing database file: CREATE TABLE IF NOT EXISTS
\* keeps the rows that are there.
InitReplay ==
    /\ \E n \in 0..MaxHistory : \E tie \in 0..n :
          /\ messages = History(n, tie)
          /\ msgSeq = n
          /\ clock = Stamp(n, tie)
    /\ topics = {"t1"}
    /\ subs = {}
    /\ queue = {}
    /\ queueSeq = 0
    /\ connectors = {"mock"}
    /\ route = IdleRoute
    /\ subscribe = IdleSubscribe
    /\ replays = [r \in 1..MaxReplays |-> IdleReplay]
    /\ attempts = {}
    /\ deltopic = IdleDelTopic
    /\ proc = IdleProc
    /\ sent = {}
    /\ users = {AdminUser}
    /\ userreq = IdleUserReq

\* Subscribe with replay of the history, next to ClearTopicMessages.
NextReplay ==
    \/ SubscribeReturn
    \/ \E r \in 1..MaxReplays : ReplayExit(r)
    \/ Quiet /\ ClearTopicMessages("t1")
    \/ Quiet /\ SubscribeCall("t1", "a", "none")
    \/ Quiet /\ SubscribeAdd
    \/ Quiet /\ SubscribeRecent
    \/ Quiet /\ \E r \in 1..MaxReplays : ReplayEnqueue(r)

SpecReplay == InitReplay /\ [][NextReplay]_vars

\* A database that holds n messages of topic t1, each saved in a second of
\* its own, when the server starts.
InitOrder ==
    /\ \E n \in 0..MaxOrderHistory :
          /\ messages = History(n, 0)
          /\ msgSeq = n
          /\ clock = n
    /\ topics = {"t1"}
    /\ subs = {}
    /\ queue = {}
    /\ queueSeq = 0
    /\ connectors = {"mock"}
    /\ route = IdleRoute
    /\ subscribe = IdleSubscribe
    /\ replays = [r \in 1..MaxReplays |-> IdleReplay]
    /\ attempts = {}
    /\ deltopic = IdleDelTopic
    /\ proc = IdleProc
    /\ sent = {}
    /\ users = {AdminUser}
    /\ userreq = IdleUserReq

\* Subscribe with the mock provider: the replay and its delivery goroutines,
\* every Send returning nil.
NextOrder ==
    \/ SubscribeReturn
    \/ \E r \in 1..MaxReplays : ReplayExit(r)
    \/ Quiet /\ SubscribeCall("t1", "a", "mock")
    \/ Quiet /\ SubscribeAdd
    \/ Quiet /\ SubscribeRecent
    \/ Quiet /\ \E r \in 1..MaxReplays : ReplayEnqueue(r)
    \/ Quiet /\ \E a \in attempts : AttemptSendOk(a)
    \/ Quiet /\ \E a \in attempts : AttemptMark(a)

SpecOrder == InitOrder /\ [][NextOrder]_vars

\* Direct messages: (provider, token); "none" has no connector, "" is the
\* missing token.
DirectInputs == {"mock", "none"} \X {"a", ""}

\* Direct messages next to publish and subscribe on one topic.
NextDirect ==
    \/ RouteReturn
    \/ SubscribeReturn
    \/ \E r \in 1..MaxReplays : ReplayExit(r)
    \/ Quiet /\ CreateTopic("t1")
    \/ Quiet /\ \E in \in DirectInputs : \E payload \in Payloads :
                   RouteDirectCall(in[1], in[2], payload)
    \/ Quiet /\ RouteDirectSendOk
    \/ Quiet /\ RouteDirectSendFail
    \/ Quiet /\ msgSeq < MaxMsgs /\ \E payload \in Payloads : RouteCall("t1", payload)
    \/ Quiet /\ RouteSave(clock)
    \/ Quiet /\ RouteGetSubscribers
    \/ Quiet /\ queueSeq < MaxQueue /\ RouteEnqueue
    \/ Quiet /\ \E in \in TopicSubscribeInputs : SubscribeCall(in[1], in[2], in[3])
    \/ Quiet /\ SubscribeAdd
    \/ Quiet /\ SubscribeRecent
    \/ Quiet /\ queueSeq < MaxQueue /\ \E r \in 1..MaxReplays : ReplayEnqueue(r)

SpecDirect == Init /\ [][NextDirect]_vars

\* Broadcast and direct messages next to ClearTopicMessages, with the
\* delivery goroutines; a Send may fail.
NextStats ==
    \/ RouteReturn
    \/ SubscribeReturn
    \/ \E r \in 1..MaxReplays : ReplayExit(r)
    \/ Quiet /\ CreateTopic("t1")
    \/ Quiet /\ ClearTopicMessages("t1")
    \/ Quiet /\ \E in \in DirectInputs : \E payload \in Payloads :
                   RouteDirectCall(in[1], in[2], payload)
    \/ Quiet /\ RouteDirectSendOk
    \/ Quiet /\ RouteDirectSendFail
    \/ Quiet /\ msgSeq < MaxMsgs /\ \E payload \in Payloads : RouteCall("t1", payload)
    \/ Quiet /\ RouteSave(clock)
    \/ Quiet /\ RouteGetSubscribers
    \/ Quiet /\ queueSeq < MaxQueue /\ RouteEnqueue
    \/ Quiet /\ \E in \in FaultSubscribeInputs : SubscribeCall(in[1], in[2], in[3])
    \/ Quiet /\ SubscribeAdd
    \/ Quiet /\ SubscribeRecent
    \/ Quiet /\ queueSeq < MaxQueue /\ \E r \in 1..MaxReplays : ReplayEnqueue(r)
    \/ Quiet /\ \E a \in attempts : AttemptSendOk(a)
    \/ Quiet /\ \E a \in attempts : AttemptSendFail(a)
    \/ Quiet /\ \E a \in attempts : AttemptMark(a)

SpecStats == Init /\ [][NextStats]_vars

\* Publisher payloads: a number, an array written with a space, a string
\* that holds a space and a <.
PayloadInputs ==
    {<<"1">>, <<"[", " ", "]">>, <<"\"", " ", "<", "\"">>}

\* Payloads from the publisher to the connector: publish, subscribe with
\* replay, the delivery goroutines, the queue processor and direct messages.
NextPayload ==
    \/ RouteReturn
    \/ SubscribeReturn
    \/ \E r \in 1..MaxReplays : ReplayExit(r)
    \/ Quiet /\ CreateTopic("t1")
    \/ Quiet /\ sent = {} /\ \E payload \in PayloadInputs :
                   RouteDirectCall("mock", "a", payload)
    \/ Quiet /\ RouteDirectSendOk
    \/ Quiet /\ msgSeq < LiveMaxMsgs /\ \E payload \in PayloadInputs :
                   RouteCall("t1", payload)
    \/ Quiet /\ RouteSave(clock)
    \/ Quiet /\ RouteGetSubscribers
    \/ Quiet /\ queueSeq < MaxQueue /\ RouteEnqueue
    \/ Quiet /\ SubscribeCall("t1", "a", "mock")
    \/ Quiet /\ SubscribeAdd
    \/ Quiet /\ SubscribeRecent
    \/ Quiet /\ queueSeq < MaxQueue /\ \E r \in 1..MaxReplays : ReplayEnqueue(r)
    \/ Quiet /\ Unsubscribe("t1", "a")
    \/ Quiet /\ \E a \in attempts : AttemptSendOk(a)
    \/ Quiet /\ \E a \in attempts : AttemptSendFail(a)
    \/ Quiet /\ \E a \in attempts : AttemptMark(a)
    \/ Quiet /\ ProcTick
    \/ Quiet /\ ProcSendOk
    \/ Quiet /\ ProcMark

SpecPayload == Init /\ [][NextPayload]_vars

\* Subscribe requests on two topics, for a provider without a connector.
ClearSubscribeInputs == {<<"t1", "a", "none">>, <<"t2", "b", "none">>}

\* Two topics: publish, subscribe with replay, and clear the messages of
\* either topic.
NextClear ==
    \/ RouteReturn
    \/ SubscribeReturn
    \/ \E r \in 1..MaxReplays : ReplayExit(r)
    \/ Quiet /\ \E name \in {"t1", "t2"} : CreateTopic(name)
    \/ Quiet /\ \E name \in {"t1", "t2"} : ClearTopicMessages(name)
    \/ Quiet /\ msgSeq < MaxMsgs /\ \E name \in {"t1", "t2"}, payload \in Payloads :
                   RouteCall(name, payload)
    \/ Quiet /\ RouteSave(clock)
    \/ Quiet /\ RouteGetSubscribers
    \/ Quiet /\ queueSeq < MaxQueue /\ RouteEnqueue
    \/ Quiet /\ \E in \in ClearSubscribeInputs : SubscribeCall(in[1], in[2], in[3])
    \/ Quiet /\ SubscribeAdd
    \/ Quiet /\ SubscribeRecent
    \/ Quiet /\ queueSeq < MaxQueue /\ \E r \in 1..MaxReplays : ReplayEnqueue(r)

SpecClear == Init /\ [][NextClear]_vars

\* Subscribe requests of two endpoints on two topics; endpoint "a" can be
\* subscribed to t1 without a connector or with one, and to t2 with one.
SweepSubscribeInputs ==
    {<<"t1", "a", "none">>, <<"t1", "a", "mock">>, <<"t2", "a", "mock">>,
     <<"t1", "b", "mock">>}

\* The sweep: publish on t1, subscribe with replay, the delivery goroutines
\* and the queue processor; every Send returns nil.
NextSweep ==
    \/ RouteReturn
    \/ SubscribeReturn
    \/ \E r \in 1..MaxReplays : ReplayExit(r)
    \/ Quiet /\ \E name \in {"t1", "t2"} : CreateTopic(name)
    \/ Quiet /\ msgSeq < LiveMaxMsgs /\ \E payload \in Payloads : RouteCall("t1", payload)
    \/ Quiet /\ RouteSave(clock)
    \/ Quiet /\ RouteGetSubscribers
    \/ Quiet /\ queueSeq < MaxQueue /\ RouteEnqueue
    \/ Quiet /\ \E in \in SweepSubscribeInputs : SubscribeCall(in[1], in[2], in[3])
    \/ Quiet /\ SubscribeAdd
    \/ Quiet /\ SubscribeRecent
    \/ Quiet /\ queueSeq < MaxQueue /\ \E r \in 1..MaxReplays : ReplayEnqueue(r)
    \/ Quiet /\ \E a \in attempts : AttemptSendOk(a)
    \/ Quiet /\ \E a \in attempts : AttemptMark(a)
    \/ Quiet /\ ProcTick
    \/ Quiet /\ ProcSkip
    \/ Quiet /\ ProcSendOk
    \/ Quiet /\ ProcMark

SpecSweep == Init /\ [][NextSweep]_vars

\* ================================================================= claims

\* A broadcast Route has returned success for a topic that existed.
RouteBroadcastDone ==
    route.pc = "done" /\ route.res = "ok" /\ route.msgID # 0

\* C1: a broadcast Route on an existing topic whose subscribers did not
\* change between the call and GetSubscribers appends exactly one message
\* and creates exactly one queue row per subscriber token, each pending and
\* each referencing the new message.
C1_FanOut ==
    (RouteBroadcastDone /\ route.subs1 = route.subs0) =>
        /\ msgSeq = route.seq0 + 1
        /\ route.msgID = msgSeq
        /\ Cardinality(route.made) = Cardinality(route.subs0)
        /\ {q.token : q \in route.made} = {s.token : s \in route.subs0}
        /\ \A q \in route.made :
              q.status = "pending" /\ q.message_id = route.msgID

C1_Witness ==
    /\ RouteBroadcastDone
    /\ route.subs1 = route.subs0
    /\ Cardinality(route.subs0) = 2
    /\ Cardinality(route.made) = 2

\* C4: every queue row references a message that exists.
C4_QueueReferencesMessage ==
    \A q \in queue : \E m \in messages : m.id = q.message_id

\* C7: a Subscribe that repeats a subscription already there returns
\* success (HTTP 200) and leaves exactly one row for (topic, token).
C7_SubscribeIdempotent ==
    (subscribe.pc = "done" /\ subscribe.dup) =>
        /\ SubscribeStatus(subscribe.res) = 200
        /\ Cardinality({s \in subs : s.topic = subscribe.topic
                                     /\ s.token = subscribe.token}) = 1

\* C8: a broadcast Route to a topic that does not exist returns
\* TopicNotFound (HTTP 404), saves no message, creates no queue row and
\* starts no delivery attempt.
C8_RouteUnknownTopic ==
    [][(route.pc = "idle" /\ route'.pc # "idle" /\ route'.topic \notin topics) =>
          /\ route'.pc = "done"
          /\ route'.res = "TopicNotFound"
          /\ SendStatus(route'.res) = 404
          /\ UNCHANGED <<storeVars, attempts, sent, userreq>>]_vars

C8_Witness ==
    /\ route.pc = "done"
    /\ route.res = "TopicNotFound"
    /\ route.topic \notin topics
    /\ messages # {}

\* C9: a Subscribe to a topic that does not exist returns TopicNotFound
\* (HTTP 404), adds no subscription row, starts no replay and creates no
\* queue row.
C9_SubscribeUnknownTopic ==
    [][(subscribe.pc = "idle" /\ subscribe'.pc # "idle"
            /\ subscribe'.topic \notin topics) =>
          /\ subscribe'.pc = "done"
          /\ subscribe'.res = "TopicNotFound"
          /\ SubscribeStatus(subscribe'.res) = 404
          /\ UNCHANGED <<storeVars, replays, attempts, sent, userreq>>]_vars

C9_Witness ==
    /\ subscribe.pc = "done"
    /\ subscribe.res = "TopicNotFound"
    /\ subscribe.topic \notin topics
    /\ msgSeq > 0

\* C5: every persisted message and every subscription names a topic that
\* exists.
C5_TopicReferenced ==
    /\ \A m \in messages : m.topic \in topics
    /\ \A s \in subs : s.topic \in topics

Referenced(name) ==
    \/ \E m \in messages : m.topic = name
    \/ \E s \in subs : s.topic = name

\* C6: DeleteTopic fails with Conflict (HTTP 409, the count in the error is
\* the non-zero count it read) exactly when a message or a subscription
\* references the name as the call counts them, and then leaves the topic in
\* place; otherwise it succeeds and the topic is no longer listed.
C6_DeleteTopic ==
    [][/\ (deltopic.pc = "idle" /\ deltopic'.pc # "idle") =>
            LET name == deltopic'.name
                has == \E m \in messages : m.topic = name
            IN  /\ has <=> (deltopic'.pc = "done" /\ deltopic'.res = "Conflict")
                /\ has => /\ deltopic'.count
                               = Cardinality({m \in messages : m.topic = name})
                          /\ deltopic'.count > 0
                          /\ DeleteTopicStatus(deltopic'.res) = 409
                /\ UNCHANGED storeVars
       /\ (deltopic.pc = "checksubs" /\ deltopic'.pc # "checksubs") =>
            LET name == deltopic.name
                has == \E x \in subs : x.topic = name
            IN  /\ has <=> (deltopic'.pc = "done" /\ deltopic'.res = "Conflict")
                /\ has => /\ deltopic'.count
                               = Cardinality({x \in subs : x.topic = name})
                          /\ deltopic'.count > 0
                          /\ DeleteTopicStatus(deltopic'.res) = 409
                /\ UNCHANGED storeVars
       /\ (deltopic.pc = "delete" /\ deltopic'.pc # "delete") =>
            /\ deltopic'.pc = "done"
            /\ deltopic'.res = "ok"
            /\ DeleteTopicStatus(deltopic'.res) = 200
            /\ deltopic.name \notin ListTopics'
            /\ ~TopicExists(deltopic.name)'
            /\ UNCHANGED <<subs, messages, queue, users, userreq>>
       /\ (deltopic'.pc = "done" /\ deltopic'.res = "ok") => deltopic.pc = "delete"
      ]_vars

\* DeleteTopic succeeds on a topic whose messages were cleared and that has
\* no subscribers.
C6_Witness ==
    /\ deltopic.pc = "done"
    /\ deltopic.res = "ok"
    /\ msgSeq > 0
    /\ ~Referenced(deltopic.name)
    /\ ~TopicExists(deltopic.name)

\* The queue row with this id is pending / delivered.
Pending(id) == \E q \in queue : q.id = id /\ q.status = "pending"

Delivered(id) == \E q \in queue : q.id = id /\ q.status = "delivered"

\* C2 as stated: every pending queue row is eventually delivered.
C2_EveryPendingDelivered ==
    \A id \in 1..MaxQueue : Pending(id) ~> Delivered(id)

\* The processor can deliver the row: GetAllPendingMessages returns it with
\* a provider that has a connector.
Deliverable(id) ==
    \E item \in PendingJoin : item.id = id /\ GetConnector(item.provider)

\* C2: with every Send returning nil and a fair scheduler, a pending queue
\* row is eventually delivered, or at some moment the processor's query does
\* not return it with a provider that has a connector (its token has no such
\* subscription, or its message is gone).
C2_PendingDeliverableDelivered ==
    \A id \in 1..MaxQueue : Pending(id) ~> (Delivered(id) \/ ~Deliverable(id))

\* The processor has sent a pending row that no delivery goroutine was
\* started for, and is about to mark it.
C2_Witness ==
    /\ proc.pc = "mark"
    /\ LET id == proc.pending[proc.i].id
       IN  /\ Pending(id)
           /\ Deliverable(id)
           /\ \E x \in sent : x.qid = id
           /\ \A a \in attempts : a.qid # id

\* C3: a queue row that is delivered stays delivered as long as it exists,
\* and a row is never in another status than pending or delivered.
C3_DeliveredIsTerminal ==
    [][/\ \A q \in queue : q.status = "delivered" =>
              \A q2 \in queue' : q2.id = q.id => q2.status = "delivered"
       /\ \A q \in queue' : q.status \in {"pending", "delivered"}]_vars

\* A row is delivered (by the processor) while its delivery goroutine is
\* still about to mark it, and a later row is pending.
C3_Witness ==
    \E q \in queue :
        /\ q.status = "delivered"
        /\ \E a \in attempts : a.qid = q.id /\ a.pc = "mark"
        /\ \E q2 \in queue : q2.id > q.id /\ q2.status = "pending"

\* C10: a replay that is over has created one queue row per message of its
\* snapshot and no other, each for the subscribed token; the snapshot is the
\* min(n, 20) most recent of the n messages the topic held, oldest first; the
\* rows are in the queue unless messages of the snapshot were cleared; and a
\* replay never creates more than 20 rows.
C10_ReplayWindow ==
    \A r \in 1..MaxReplays :
        LET rp == replays[r]
            k == Len(rp.msgs)
            n == Cardinality(rp.had)
            snap == {rp.msgs[i] : i \in 1..k}
        IN  /\ Cardinality(rp.made) <= ReplayWindow
            /\ rp.pc = "done" =>
                /\ k = IF n < ReplayWindow THEN n ELSE ReplayWindow
                /\ Cardinality(snap) = k
                /\ snap \subseteq rp.had
                /\ \A m \in snap : \A x \in rp.had \ snap :
                      x.created_at <= m.created_at
                /\ \A i \in 1..k : \A j \in i..k :
                      rp.msgs[i].created_at <= rp.msgs[j].created_at
                /\ Cardinality(rp.made) = k
                /\ {q.message_id : q \in rp.made} = {m.id : m \in snap}
                /\ \A q \in rp.made : q.token = rp.token
                /\ snap \subseteq messages => rp.made \subseteq queue

\* A replay is over for a topic that held more than 20 messages: 20 rows.
C10_Witness ==
    \E r \in 1..MaxReplays :
        /\ replays[r].pc = "done"
        /\ Cardinality(replays[r].had) > ReplayWindow
        /\ Len(replays[r].msgs) = ReplayWindow
        /\ Cardinality({q \in queue : q.token = replays[r].token}) = ReplayWindow

\* C11: what GetRecentMessages(topic, 20) returned to a Subscribe holds the
\* min(20, count) most recently created messages of the topic (messages get
\* increasing ids as they are created), oldest first.
C11_RecentChronological ==
    \A r \in 1..MaxReplays :
        LET rp == replays[r]
            k == Len(rp.msgs)
            n == Cardinality(rp.had)
            snap == {rp.msgs[i] : i \in 1..k}
        IN  rp.pc # "idle" =>
                /\ k = IF n < ReplayWindow THEN n ELSE ReplayWindow
                /\ \A m \in snap : \A x \in rp.had \ snap : x.id < m.id
                /\ \A i \in 1..k : \A j \in (i + 1)..k :
                      rp.msgs[i].id < rp.msgs[j].id

\* C12: the queue rows one replay created have increasing ids in the order
\* in which their messages were created.
C12_ReplayEnqueueOrder ==
    \A r \in 1..MaxReplays :
        \A q1 \in replays[r].made : \A q2 \in replays[r].made :
            q1.message_id < q2.message_id => q1.id < q2.id

\* C13: the connector receives the payloads of a replay in the order of the
\* messages: no Send of a later queue row has returned while the Send of an
\* earlier row of the replay is still to be made.
C13_ReplayDeliveryOrder ==
    \A a \in attempts : \A x \in sent :
        (a.pc = "send" /\ a.token = x.token) => x.qid < a.qid

\* C14: a broadcast Route never waits for a delivery goroutine: whatever the
\* goroutines are doing, its next statement can run, and when it returns
\* success it has enqueued one row per subscriber it read.
C14_RouteNeverWaits ==
    /\ route.pc = "save" => ENABLED RouteSave(clock)
    /\ route.pc = "getsubs" => ENABLED RouteGetSubscribers
    /\ route.pc = "enqueue" => ENABLED RouteEnqueue
    /\ route.pc = "done" => ENABLED RouteReturn
    /\ RouteBroadcastDone => Cardinality(route.made) = Len(route.subscribers)

\* Route has returned while the Send for a row it enqueued is still to be
\* made.
C14_Witness ==
    /\ RouteBroadcastDone
    /\ Cardinality(route.made) = 2
    /\ \E a \in attempts : \E q \in route.made : a.qid = q.id /\ a.pc = "send"

\* C15: the delivery goroutine of a just-enqueued row marks exactly that row
\* delivered after a Send that returned nil; when Send fails the queue is
\* left as it is and the Route call is not touched; a broadcast Route that
\* saved its message returns success.
C15_AttemptRule ==
    [][/\ \A a \in {x \in attempts : \A y \in attempts' : y.qid # x.qid} :
            /\ a.pc = "mark" =>
                  /\ \E x \in sent : x.qid = a.qid
                  /\ queue' = {IF q.id = a.qid
                               THEN [q EXCEPT !.status = "delivered"]
                               ELSE q : q \in queue}
            /\ a.pc = "send" => (queue' = queue /\ route' = route)
       /\ (route'.pc = "done" /\ route'.msgID # 0) =>
              (route'.res = "ok" /\ SendStatus(route'.res) = 200)]_vars

\* Route has returned success, the Send for its row has failed and the rows
\* it enqueued are all pending.
C15_Witness ==
    /\ RouteBroadcastDone
    /\ \E i \in 1..Len(route.subscribers) : route.subscribers[i].provider = "mock"
    /\ attempts = {}
    /\ sent = {}
    /\ route.made # {}
    /\ route.made \subseteq queue

\* C16: a direct Route (no topic) changes no table and starts no delivery
\* goroutine, whether it fails or succeeds; with a registered provider and a
\* token it calls Send once, before it returns, and only then.
C16_DirectRouteFrame ==
    [][/\ (route.pc = "idle" /\ route'.pc # "idle" /\ route'.topic = "") =>
            /\ UNCHANGED <<storeVars, attempts, sent, userreq>>
            /\ route'.sends = 0
            /\ (route'.provider \in connectors /\ route'.token # "")
                   <=> route'.pc = "dsend"
            /\ route'.pc \in {"dsend", "done"}
       /\ (route.pc = "dsend" /\ route' # route) =>
            /\ UNCHANGED <<storeVars, attempts, userreq>>
            /\ route'.pc = "done"
            /\ route'.sends = 1
            /\ route'.res = "ok" =>
                  sent' = sent \cup {[qid |-> 0, provider |-> route.provider,
                                      token |-> route.token,
                                      payload |-> route.payload]}
            /\ route'.res # "ok" => sent' = sent
      ]_vars

\* A direct Route has made its Send and returned while messages, queue rows
\* and subscriptions exist.
C16_Witness ==
    /\ route.pc = "done"
    /\ route.topic = ""
    /\ route.res = "ok"
    /\ route.sends = 1
    /\ messages # {}
    /\ queue # {}

\* C17: a direct Route that has returned failed with ConnectorNotFound when
\* its provider has no connector, else with TokenMissing when its token is
\* empty, in both cases without a Send; else it made one Send and returned
\* success or the connector's error; every error is answered with 500.
C17_DirectRouteErrors ==
    (route.pc = "done" /\ route.topic = "") =>
        /\ route.provider \notin connectors =>
              (route.res = "ConnectorNotFound" /\ route.sends = 0)
        /\ (route.provider \in connectors /\ route.token = "") =>
              (route.res = "TokenMissing" /\ route.sends = 0)
        /\ (route.provider \in connectors /\ route.token # "") =>
              (route.res \in {"ok", "SendError"} /\ route.sends = 1)
        /\ route.res # "ok" => SendStatus(route.res) = 500
        /\ route.sends = 0 =>
              \A x \in sent : x.qid = 0 => x.token # ""

\* A direct Route with a registered provider and no token has returned
\* TokenMissing, after an earlier direct Route made its Send.
C17_Witness ==
    /\ route.pc = "done"
    /\ route.topic = ""
    /\ route.res = "TokenMissing"
    /\ route.provider \in connectors
    /\ \E x \in sent : x.qid = 0

\* The envelope of publisher payload P on topic T, P byte for byte.
Envelope(topic, payload) == <<"{topic:", topic, ",payload:">> \o payload \o <<"}">>

\* C18: the message a broadcast saved holds the envelope of the publisher's
\* payload, every Send for a queue row is handed the payload of the row's
\* message, and a direct Send is handed the publisher's payload.
C18_PayloadRoundTrip ==
    /\ (route.pc \in {"getsubs", "enqueue", "done"} /\ route.msgID # 0) =>
          \A m \in messages :
              m.id = route.msgID => m.payload = Envelope(route.topic, route.raw)
    /\ \A x \in sent :
          /\ x.qid # 0 =>
                \A q \in queue : \A m \in messages :
                    (q.id = x.qid /\ m.id = q.message_id) =>
                        /\ x.payload = m.payload
                        /\ \E P \in PayloadInputs :
                              x.payload = Envelope(m.topic, P)
          /\ x.qid = 0 => x.payload \in PayloadInputs

\* C19: a delivered queue row is in nothing the processor loads with
\* GetAllPendingMessages and in no result of GetPendingMessages for its
\* token, and a MarkDelivered of a row that is already delivered, by a
\* delivery goroutine or by the processor, leaves the store as it is.
C19_DeliveredNotPending ==
    [][/\ (proc.pc = "wait" /\ proc'.pc = "item") =>
              \A i \in 1..Len(proc'.pending) : \A q \in queue :
                  q.id = proc'.pending[i].id => q.status = "pending"
       /\ \A q \in queue' : q.status = "delivered" =>
              \A res \in GetPendingMessages(q.token)' :
                  \A i \in 1..Len(res) : res[i].id # q.id
       /\ (/\ proc.pc = "mark"
           /\ proc' # proc
           /\ \E q \in queue : q.id = proc.pending[proc.i].id
                               /\ q.status = "delivered") =>
              (queue' = queue /\ messages' = messages /\ subs' = subs)
       /\ \A a \in attempts :
              (/\ a.pc = "mark"
               /\ a \notin attempts'
               /\ \E q \in queue : q.id = a.qid /\ q.status = "delivered") =>
                  (queue' = queue /\ messages' = messages)]_vars

\* The processor is about to mark a row that a delivery goroutine has
\* already marked delivered, while GetAllPendingMessages and
\* GetPendingMessages of the row's token return another row and not this one.
C19_Witness ==
    /\ proc.pc = "mark"
    /\ \E q \in queue :
          /\ q.id = proc.pending[proc.i].id
          /\ q.status = "delivered"
          /\ \E res \in GetPendingMessages(q.token) :
                Len(res) > 0 /\ \A i \in 1..Len(res) : res[i].id # q.id
          /\ \E r \in PendingJoin : r.id # q.id

\* C20: a step that removes messages removes, for one topic T, every message
\* of T and in the same step every queue row that references one of them,
\* and leaves the messages of the other topics, the queue rows that
\* reference them, the subscriptions and the topics as they were.
C20_ClearTopicMessages ==
    [][(messages' # messages /\ messages' \subseteq messages) =>
          \E T \in Topics :
              /\ messages' = {m \in messages : m.topic # T}
              /\ queue' = {q \in queue :
                              \A m \in messages :
                                  m.id = q.message_id => m.topic # T}
              /\ subs' = subs
              /\ topics' = topics]_vars

\* The messages of one topic have been cleared with the queue row of one of
\* them, while a message of the other topic, its queue row and the
\* subscriptions of both topics are still there.
C20_Witness ==
    /\ Cardinality(messages) < msgSeq
    /\ Cardinality(queue) < queueSeq
    /\ \E T \in topics :
          /\ \A m \in messages : m.topic = T
          /\ \E q \in queue : \E m \in messages : m.id = q.message_id
          /\ \E s \in subs : s.topic # T
          /\ \E s \in subs : s.topic = T
    /\ \A q \in queue : \E m \in messages : m.id = q.message_id

C22_SkipUnknownProvider ==
    [][/\ (/\ proc.pc = "item"
           /\ proc.pending[proc.i].provider \notin connectors
           /\ proc' # proc) =>
              /\ queue' = queue
              /\ sent' = sent
              /\ proc' = IF proc.i = Len(proc.pending) THEN IdleProc
                         ELSE [proc EXCEPT !.i = proc.i + 1]
       /\ (/\ proc.pc = "item"
           /\ proc.pending[proc.i].provider \in connectors
           /\ \E j \in 1..(proc.i - 1) : proc.pending[j].provider \notin connectors
           /\ proc' # proc) =>
              \/ /\ proc'.pc = "mark"
                 /\ \E x \in sent' : /\ x.qid = proc.pending[proc.i].id
                                     /\ x.provider = proc.pending[proc.i].provider
              \/ /\ proc'.pc # "mark"
                 /\ queue' = queue
       /\ (proc.pc = "mark" /\ proc' # proc) =>
              \A q \in queue' :
                  q.id = proc.pending[proc.i].id => q.status = "delivered"]_vars

\* A sweep has skipped the row of one endpoint, which is still pending, and
\* has marked the row of another endpoint, which came later in the sweep,
\* delivered.
C22_Witness ==
    /\ proc.pc = "item"
    /\ \E j \in 1..(proc.i - 1) : \E k \in 1..(proc.i - 1) :
          /\ j < k
          /\ proc.pending[j].provider \notin connectors
          /\ proc.pending[k].provider \in connectors
          /\ proc.pending[j].id # proc.pending[k].id
          /\ \E q \in queue : q.id = proc.pending[j].id /\ q.status = "pending"
          /\ \E q \in queue : q.id = proc.pending[k].id /\ q.status = "delivered"
          /\ \A a \in attempts : a.qid # proc.pending[k].id
          /\ \E x \in sent : x.qid = proc.pending[k].id

\* C25: every Send for a queue row went through the connector of the
\* provider that the subscription (topic of the row's message, token of the
\* row) names.
C25_SweepUsesSubscriptionProvider ==
    \A x \in sent : \A q \in queue : \A m \in messages :
        (x.qid # 0 /\ q.id = x.qid /\ m.id = q.message_id) =>
            \E sb \in subs : /\ sb.topic = m.topic
                             /\ sb.token = q.token
                             /\ sb.provider = x.provider

\* C23 as stated, with "afterwards" read as after the cancellation: once
\* the context is cancelled the loop exits at last and starts no sweep.
C23_NoSweepAfterCancel ==
    /\ (proc.ctx = "done") ~> (proc.pc = "stopped")
    /\ [][proc.ctx = "done" => ~(proc.pc = "wait" /\ proc'.pc = "item")]_vars

\* C23: once the context is cancelled the loop exits at last; it exits only
\* on cancellation; and once it has exited the processor takes no step: no
\* sweep, no Send, no MarkDelivered.
C23_ProcessorStops ==
    /\ (proc.ctx = "done") ~> (proc.pc = "stopped")
    /\ [][/\ proc'.pc = "stopped" => proc.ctx = "done"
          /\ proc.pc = "stopped" => proc' = proc]_vars

\* The processor has stopped while a row that its query would return is
\* pending.
C23_Witness ==
    /\ proc.pc = "stopped"
    /\ \E q \in queue :
          /\ q.status = "pending"
          /\ \E sb \in subs : sb.token = q.token /\ sb.provider \in connectors
          /\ \E m \in messages : m.id = q.message_id

\* The process was restarted and the delivery goroutine of this pending row
\* is lost: no goroutine holds the row and nothing was sent for it, while
\* its token has a subscription with a registered provider and its message
\* is stored.
Orphan(id) ==
    /\ proc.boot > 0
    /\ \E q \in queue :
          /\ q.id = id
          /\ q.status = "pending"
          /\ \E m \in messages : m.id = q.message_id
          /\ \E sb \in subs : sb.token = q.token /\ sb.provider \in connectors
    /\ \A a \in attempts : a.qid # id
    /\ \A x \in sent : x.qid # id

\* C24 as stated: a row whose delivery goroutine was lost in a restart is
\* delivered at last.
C24_OrphanDelivered ==
    \A id \in 1..MaxQueue : Orphan(id) ~> Delivered(id)

\* C24: with every Send returning nil and a fair scheduler, a row whose
\* delivery goroutine was lost in a restart is delivered at last by the
\* processor, or at some moment no subscription with a registered provider
\* is left for its token.
C24_OrphanDeliveredWhileSubscribed ==
    \A id \in 1..MaxQueue :
        Orphan(id) ~>
            \/ Delivered(id)
            \/ \A q \in queue : \A sb \in subs :
                  (q.id = id /\ sb.token = q.token) => sb.provider \notin connectors

\* After a restart the processor has sent a row that no goroutine holds and
\* is about to mark it.
C24_Witness ==
    /\ proc.boot > 0
    /\ proc.pc = "mark"
    /\ attempts = {}
    /\ \E q \in queue : /\ q.id = proc.pending[proc.i].id
                        /\ q.status = "pending"
    /\ \E x \in sent : x.qid = proc.pending[proc.i].id

\* C26: a delete request whose target is the operator's own username is
\* answered 409 and leaves the table of users as it is, whether or not the
\* operator's row exists.
C26_DeleteSelfConflict ==
    [][(/\ userreq.pc = "idle"
        /\ userreq'.pc = "done"
        /\ userreq'.op = "delete"
        /\ userreq'.target = userreq'.caller) =>
            (userreq'.status = 409 /\ users' = users)]_vars

\* A user has asked to delete themself, got 409 and is still in the table,
\* after another user was deleted.
C26_Witness ==
    /\ userreq.pc = "done"
    /\ userreq.op = "delete"
    /\ userreq.target = userreq.caller
    /\ userreq.status = 409
    /\ \E u \in users : u.username = userreq.target
    /\ AdminUser \notin users

\* C27: a step that changes the status of a queue row is the MarkDelivered
\* of a delivery goroutine or of the processor for one row, after its Send
\* returned nil; it sets that row to delivered, whatever the row was, and
\* leaves every other row as it is; and a row for which a Send returned nil
\* is delivered as soon as no goroutine and no sweep is left between its Send
\* and its MarkDelivered.
C27_ConcurrentSendSafe ==
    [][/\ (queue' # queue /\ {q.id : q \in queue'} = {q.id : q \in queue}) =>
              \E id \in {q.id : q \in queue} :
                  /\ \/ \E a \in attempts :
                           a.pc = "mark" /\ a.qid = id /\ a \notin attempts'
                     \/ /\ proc.pc = "mark"
                        /\ proc.pending[proc.i].id = id
                        /\ proc' # proc
                  /\ \E x \in sent : x.qid = id
                  /\ queue' = {IF q.id = id
                               THEN [id |-> q.id, message_id |-> q.message_id,
                                     token |-> q.token, status |-> "delivered"]
                               ELSE q : q \in queue}
       /\ \A q \in queue :
              (/\ \E x \in sent : x.qid = q.id
               /\ \A a \in attempts : ~(a.qid = q.id /\ a.pc = "mark")
               /\ ~(proc.pc = "mark" /\ proc.pending[proc.i].id = q.id)) =>
                  q.status = "delivered"]_vars

\* The router's delivery goroutine and the processor have both sent the same
\* pending row and both are about to mark it, while another row is pending.
C27_Witness ==
    \E q \in queue :
        /\ q.status = "pending"
        /\ \E a \in attempts : a.qid = q.id /\ a.pc = "mark"
        /\ proc.pc = "mark"
        /\ proc.pending[proc.i].id = q.id
        /\ \E q2 \in queue : q2.id # q.id /\ q2.status = "pending"

\* The delivery goroutine of this pending row was aborted: no goroutine
\* holds the row and nothing was sent for it, while its message is stored
\* and its token has a subscription with a registered provider.
Aborted(id) ==
    /\ \E q \in queue :
          /\ q.id = id
          /\ q.status = "pending"
          /\ \E m \in messages : m.id = q.message_id
          /\ \E sb \in subs : sb.token = q.token /\ sb.provider \in connectors
    /\ \A a \in attempts : a.qid # id
    /\ \A x \in sent : x.qid # id

\* The return of Route, which cancels the request's context, and the end of
\* a delivery goroutine whose Send was aborted leave messages and queue as
\* they are.
CancelKeepsStore ==
    [][/\ (route.pc = "done" /\ route'.pc = "idle") =>
              (messages' = messages /\ queue' = queue)
       /\ \A a \in attempts :
              (/\ a.pc = "send"
               /\ a.ctx = "cancelled"
               /\ a \notin attempts'
               /\ \A b \in attempts' : b.qid # a.qid) =>
                  (messages' = messages /\ queue' = queue)]_vars

\* C28 as stated: the cancellation keeps message and queue rows, and a row
\* whose attempt was aborted is delivered at last.
C28_AbortedDelivered ==
    /\ CancelKeepsStore
    /\ \A id \in 1..MaxQueue : Aborted(id) ~> Delivered(id)

\* C28: the cancellation keeps message and queue rows, an aborted attempt
\* leaves its row pending, and with a fair scheduler and the processor's
\* Sends returning nil the row is delivered at last, or at some moment no
\* subscription with a registered provider is left for its token.
C28_AbortedDeliveredWhileSubscribed ==
    /\ CancelKeepsStore
    /\ \A id \in 1..MaxQueue :
          Aborted(id) ~>
              \/ Delivered(id)
              \/ \A q \in queue : \A sb \in subs :
                    (q.id = id /\ sb.token = q.token) =>
                        sb.provider \notin connectors

\* Route has returned, the attempt for the row it enqueued was aborted, and
\* the processor has sent the row, which is still pending, and is about to
\* mark it.
C28_Witness ==
    /\ route.pc = "idle"
    /\ proc.boot = 0
    /\ proc.pc = "mark"
    /\ \E q \in queue : /\ q.id = proc.pending[proc.i].id
                        /\ q.status = "pending"
                        /\ \A a \in attempts : a.qid # q.id
                        /\ \E m \in messages : m.id = q.message_id

\* C29: a step of the broadcast loop that enqueues nothing (EnqueueMessage
\* failed) starts no delivery goroutine, sends nothing, keeps the saved
\* message and goes on to the next subscriber; a broadcast that is through
\* its loop returns success, has enqueued one row of its message for every
\* subscriber it did not skip and none for a skipped one, and its message
\* is stored.
C29_BestEffortFanOut ==
    [][/\ (route.pc = "enqueue" /\ route' # route /\ queue' = queue) =>
              /\ attempts' = attempts
              /\ sent' = sent
              /\ messages' = messages
              /\ route'.i = route.i + 1
              /\ route'.made = route.made
              /\ IF route.i = Len(route.subscribers)
                 THEN route'.pc = "done" /\ route'.res = "ok"
                 ELSE route'.pc = "enqueue"
       /\ (route.pc = "enqueue" /\ route'.pc = "done") =>
              /\ SendStatus(route'.res) = 200
              /\ \E m \in messages' : m.id = route.msgID
              /\ \A i \in 1..Len(route.subscribers) :
                    LET rows == {q \in route'.made :
                                    /\ q.token = route.subscribers[i].token
                                    /\ q.message_id = route.msgID}
                    IN  IF i \in route'.skipped
                        THEN rows = {}
                        ELSE /\ Cardinality(rows) = 1
                             /\ \A q \in rows :
                                   /\ \E q2 \in queue' : q2.id = q.id
                                   /\ \/ \E a \in attempts' : a.qid = q.id
                                      \/ \E x \in sent' : x.qid = q.id]_vars

\* A broadcast has skipped its first subscriber, has enqueued a row for the
\* second, whose delivery goroutine is running, and has returned success.
C29_Witness ==
    /\ route.pc = "done"
    /\ route.res = "ok"
    /\ route.skipped = {1}
    /\ \E q \in route.made :
          /\ q.token = route.subscribers[2].token
          /\ \E q2 \in queue : q2.id = q.id
          /\ \E a \in attempts : a.qid = q.id
    /\ \E m \in messages : m.id = route.msgID

\* C30: a broadcast in which TopicExists or SaveMessage failed is over with
\* an error (HTTP 500); it has saved no message, enqueued no row, started no
\* delivery goroutine and made no Send.
C30_EarlyFailureSurfaced ==
    route.fault \in {"TopicExists", "SaveMessage"} =>
        /\ route.pc = "done"
        /\ route.res = "StoreError"
        /\ SendStatus(route.res) = 500
        /\ route.msgID = 0
        /\ msgSeq = route.seq0
        /\ route.made = {}
        /\ route.sends = 0
        /\ \A q \in queue : q.message_id # 0
        /\ \A a \in attempts : a.ctx # "request"

\* SaveMessage has failed for a topic that has a subscriber and holds an
\* earlier message: the call is over with an error.
C30_Witness ==
    /\ route.fault = "SaveMessage"
    /\ route.pc = "done"
    /\ \E sb \in subs : sb.topic = route.topic
    /\ \E m \in messages : m.topic = route.topic

\* C31: replay never affects the outcome of Subscribe.  Once AddSubscription
\* succeeded (the call is at GetRecentMessages) the call can return at once,
\* its next step returns success and touches neither the store nor the
\* connectors, also when GetRecentMessages fails; and no step of a replay
\* goroutine or of a delivery goroutine (EnqueueMessage succeeding or
\* failing, Send succeeding or failing) changes the result of the call or the
\* subscription rows.
C31_ReplayNeverFailsSubscribe ==
    /\ [](subscribe.pc = "recent" => ENABLED SubscribeRecent)
    /\ [][
       /\ subscribe.pc = "recent" =>
            /\ subscribe'.pc \in {"recent", "done"}
            /\ subscribe'.pc = "done" =>
                  /\ subscribe'.res = "ok"
                  /\ SubscribeStatus(subscribe'.res) = 200
                  /\ subs' = subs
                  /\ queue' = queue
                  /\ sent' = sent
       /\ (replays' # replays \/ attempts' # attempts) /\ route' = route =>
            /\ subs' = subs
            /\ subscribe'.pc = subscribe.pc => subscribe'.res = subscribe.res
       /\ subscribe.pc = "done" /\ subscribe'.pc = "done" =>
            subscribe'.res = subscribe.res]_vars

\* GetRecentMessages failed, the call answers 200 and the row is there.
C31_Witness ==
    /\ subscribe.pc = "done"
    /\ subscribe.fault = "GetRecentMessages"
    /\ SubscribeStatus(subscribe.res) = 200
    /\ [topic |-> subscribe.topic, token |-> subscribe.token,
        provider |-> subscribe.provider] \in subs
    /\ messages # {}

\* C32: when m1, m2, m3 were saved in that order on one topic (ids 1, 2, 3),
\* GetRecentMessages of the topic with a limit above three (10 in the test,
\* 20 in Subscribe) returns all three, the newest (m3) at index 0 and the
\* oldest (m1) at the last index.  Stated of what the call in Subscribe
\* returned and of the call with limit 10 on the same rows.
C32_RecentNewestFirst ==
    \A r \in 1..MaxReplays :
        LET rp == replays[r]
        IN  rp.pc # "idle" /\ {m.id : m \in rp.had} = {1, 2, 3} =>
                /\ Len(rp.msgs) = 3
                /\ rp.msgs[1].id = 3
                /\ rp.msgs[3].id = 1
                /\ messages = rp.had =>
                      \A s \in GetRecentMessages(rp.topic, 10) :
                          Len(s) = 3 /\ s[1].id = 3 /\ s[3].id = 1

\* C33: message ids are strictly increasing over the whole history: a message
\* row that appears has an id above every id assigned before (the ids in the
\* table and the ids of the rows ClearTopicMessages deleted), the highest
\* assigned id never goes down; the same for queue rows; and the two
\* counters are independent: saving a message does not move the queue
\* counter, enqueueing does not move the message counter.
C33_IdsStrictlyIncreasing ==
    /\ [](/\ \A m \in messages : m.id <= msgSeq
          /\ \A q \in queue : q.id <= queueSeq
          /\ \A m1 \in messages : \A m2 \in messages : m1.id = m2.id => m1 = m2
          /\ \A q1 \in queue : \A q2 \in queue : q1.id = q2.id => q1 = q2)
    /\ [][
       /\ msgSeq' >= msgSeq
       /\ queueSeq' >= queueSeq
       /\ \A m \in messages' \ messages :
             /\ m.id > msgSeq
             /\ \A x \in messages : m.id > x.id
             /\ queueSeq' = queueSeq
       /\ \A q \in {x \in queue' : \A y \in queue : y.id # x.id} :
             /\ q.id > queueSeq
             /\ \A x \in queue : q.id > x.id
             /\ msgSeq' = msgSeq]_vars

\* A message saved after ClearTopicMessages deleted the highest id: the
\* table holds id 2 alone, and a queue row refers to it.
C33_Witness ==
    /\ msgSeq = 2
    /\ {m.id : m \in messages} = {2}
    /\ \E q \in queue : q.message_id = 2

C35_OneItemPerMessageAndToken ==
    \A q1 \in queue : \A q2 \in queue :
        (q1.message_id = q2.message_id /\ q1.token = q2.token) => q1.id = q2.id

\* C35: queue ids are unique; the fan-out of one broadcast Route creates at
\* most one queue row per endpoint token, all for the message of that Route;
\* and one replay creates at most one queue row per message, all for the
\* endpoint of its Subscribe.
C35_OneItemPerCall ==
    /\ \A q1 \in queue : \A q2 \in queue : q1.id = q2.id => q1 = q2
    /\ \A q1 \in route.made :
          /\ q1.message_id = route.msgID
          /\ \A q2 \in route.made : q1.token = q2.token => q1.id = q2.id
    /\ \A r \in 1..MaxReplays :
          \A q1 \in replays[r].made :
              /\ q1.token = replays[r].token
              /\ \A q2 \in replays[r].made :
                    q1.message_id = q2.message_id => q1.id = q2.id

\* A replay has enqueued, for its endpoint, the message that the fan-out of
\* the Route still in flight has enqueued for the same endpoint.
C35_Witness ==
    \E r \in 1..MaxReplays :
        \E q1 \in replays[r].made : \E q2 \in route.made :
            /\ q1.message_id = q2.message_id
            /\ q1.token = q2.token
            /\ q1.id # q2.id

\* C36: a message is never missed by a subscriber.  When no call is in
\* flight and every replay has settled, every endpoint subscribed to topic T
\* has at least one queue row for every message of T that is followed by
\* fewer than 20 later messages of T, whether the message was published
\* before, during or after the Subscribe.
C36_PublishNeverMissed ==
    (/\ route.pc = "idle"
     /\ subscribe.pc = "idle"
     /\ \A r \in 1..MaxReplays : replays[r].pc = "idle") =>
        \A sb \in subs : \A m \in messages :
            (/\ m.topic = sb.topic
             /\ Cardinality({x \in messages : x.topic = m.topic /\ x.id > m.id})
                    < ReplayWindow) =>
                \E q \in queue : q.message_id = m.id /\ q.token = sb.token

\* The Sends the processor has made in the sweep it is in: the items before
\* the current one whose provider has a connector, and the current one once
\* its Send has returned.
SweepSends ==
    {j \in 1..Len(proc.pending) :
        /\ proc.pending[j].provider \in connectors
        /\ \/ j < proc.i
           \/ j = proc.i /\ proc.pc = "mark"}

\* C37: within one sweep the processor makes at most one Send per queue id.
C37_OneSendPerItemPerSweep ==
    \A j \in SweepSends : \A k \in SweepSends :
        proc.pending[j].id = proc.pending[k].id => j = k

\* C38: no false delivery.  A queue row is delivered only if a connector
\* Send for the row, to the row's endpoint token and with the payload of the
\* row's message, has returned success; a row whose Send failed, was skipped
\* for want of a connector or never started is pending.
C38_NoFalseDelivery ==
    \A q \in queue : q.status = "delivered" =>
        \E x \in sent :
            /\ x.qid = q.id
            /\ x.token = q.token
            /\ x.provider \in connectors
            /\ \A m \in messages : m.id = q.message_id => x.payload = m.payload

\* One row is delivered after a successful Send; another row, for which no
\* Send succeeded and no delivery goroutine is left, is pending after a
\* sweep went over it.
C38_Witness ==
    /\ \E q \in queue : /\ q.status = "delivered"
                        /\ \E x \in sent : x.qid = q.id
                        /\ \E m \in messages : m.id = q.message_id
    /\ \E q \in queue : /\ q.status = "pending"
                        /\ \A x \in sent : x.qid # q.id
                        /\ \A a \in attempts : a.qid # q.id
    /\ proc.pc = "wait"

\* C39 as stated: when a connector Send for a queue row starts, by the
\* delivery goroutine of a just-enqueued row or by the processor in a
\* sweep, the row is not delivered.
C39_NoSendForDelivered ==
    [][/\ \A a \in attempts :
              (a.pc = "send" /\ \E b \in attempts' : b.qid = a.qid /\ b.pc = "mark") =>
                  \A q \in queue : q.id = a.qid => q.status = "pending"
       /\ (/\ proc.pc = "item"
           /\ proc.pending[proc.i].provider \in connectors
           /\ proc' # proc) =>
              \A q \in queue :
                  q.id = proc.pending[proc.i].id => q.status = "pending"]_vars

\* C39: a Send is started only for a row that was pending when it was
\* picked up.  A delivery goroutine is started for a row that is inserted,
\* pending, in the same step; a sweep loads rows that are pending at that
\* moment; and a Send starts only from such a goroutine or for an item of the
\* list the sweep loaded.
C39_SendOnlyForPickedUpPending ==
    [][/\ \A b \in attempts' :
              (\A a \in attempts : a.qid # b.qid) =>
                  /\ b.pc = "send"
                  /\ \A q \in queue : q.id # b.qid
                  /\ \E q \in queue' : /\ q.id = b.qid
                                        /\ q.status = "pending"
                                        /\ q.token = b.token
       /\ (proc.pc = "wait" /\ proc'.pc = "item") =>
              \A i \in 1..Len(proc'.pending) :
                  \E q \in queue : /\ q.id = proc'.pending[i].id
                                   /\ q.status = "pending"
                                   /\ q.token = proc'.pending[i].token
       /\ \A x \in sent' \ sent :
              \/ x.qid = 0
              \/ \E a \in attempts : a.qid = x.qid /\ a.pc = "send"
              \/ proc.pc = "item" /\ proc.pending[proc.i].id = x.qid]_vars

\* The processor is about to send an item of its sweep that a delivery
\* goroutine has marked delivered since the sweep loaded it.
C39_Witness ==
    /\ proc.pc = "item"
    /\ proc.pending[proc.i].provider \in connectors
    /\ \E q \in queue : /\ q.id = proc.pending[proc.i].id
                        /\ q.status = "delivered"
    /\ \A a \in attempts : a.qid # proc.pending[proc.i].id

\* C40 as stated: a queue row is created for an endpoint only while the
\* endpoint has a subscription to the topic of the row's message; none is
\* created between the return of Unsubscribe or ClearTopicSubscribers and the
\* endpoint's next subscription.
C40_NoItemAfterUnsubscribe ==
    [][\A q \in {x \in queue' : \A y \in queue : y.id # x.id} :
           \E sb \in subs :
               /\ sb.token = q.token
               /\ \A m \in messages : m.id = q.message_id => sb.topic = m.topic]_vars

\* C40: a broadcast Route fans out to exactly the subscriptions that are
\* there when it reads the subscribers, so a Route that reads them after
\* Unsubscribe or ClearTopicSubscribers returned creates no row for the
\* endpoint; a row for an endpoint without a subscription comes only from a
\* fan-out that read the subscribers while the endpoint was subscribed, or
\* from the replay of a Subscribe of that endpoint.
C40_OnlyFromEarlierSnapshot ==
    [][/\ (route.pc = "getsubs" /\ route' # route) =>
              /\ {route'.subscribers[i] : i \in 1..Len(route'.subscribers)}
                    = {s \in subs : s.topic = route.topic}
              /\ route'.subs1 = {s \in subs : s.topic = route.topic}
       /\ \A q \in {x \in queue' : \A y \in queue : y.id # x.id} :
              \/ \E sb \in subs : sb.token = q.token /\ sb.topic = "t1"
              \/ /\ route.pc = "enqueue"
                 /\ q.message_id = route.msgID
                 /\ \E sb \in route.subs1 : sb.token = q.token
              \/ \E r \in 1..MaxReplays :
                    /\ replays[r].pc = "run"
                    /\ replays[r].token = q.token
                    /\ replays[r].msgs[replays[r].i].id = q.message_id]_vars

\* The fan-out of a Route is about to enqueue for an endpoint that was
\* subscribed when the Route read the subscribers and has no subscription
\* any more.
C40_Witness ==
    /\ route.pc = "enqueue"
    /\ queueSeq < MaxQueue
    /\ route.subscribers[route.i] \in route.subs1
    /\ \A sb \in subs : ~(/\ sb.token = route.subscribers[route.i].token
                          /\ sb.topic = route.topic)
====
